---------------------------- MODULE Spec2Model ----------------------------
(***************************************************************************)
(* A model of the link protocol of the WLKATA Mirobot Python client: the   *)
(* response matcher (wait_for_ok), the idle poller (wait_until_idle), the  *)
(* command session (send_msg / send) and the status parser (_parse_status).*)
(* Two packages of the repository implement the protocol, wlkata_mirobot   *)
(* (the packaged one) and mirobot (its predecessor); the variable pkg says *)
(* which one a behaviour runs.                                             *)
(*                                                                         *)
(* Text is modelled as sequences of one-character strings, so that the     *)
(* substring, suffix, split and replace tests of the code are computed.    *)
(***************************************************************************)
EXTENDS Integers, Sequences, FiniteSets, TLC

(***************************************************************************)
(* Bounds of the model.                                                    *)
(***************************************************************************)
\* longest scripted sequence of readline results fed to wait_for_ok
MaxScript == 3
\* reads made after the script is exhausted (the device stays silent)
MaxIdleReads == 2
\* public calls of send_msg in one session
MaxCalls == 2
\* status replies that report a moving arm after one command
MaxBusy == 2
\* status queries of one wait_until_idle when replies may come late
MaxPolls == 2
\* status lines with a defect the device sends before well-formed ones
MaxDefective == 2
\* lines the device sends unasked in one session
MaxFaults == 1
\* public calls of disconnect in one session
MaxCloses == 2
\* longest msg handed to send_msg(var_command=True)
MaxVarLen == 5

(***************************************************************************)
(* Text helpers (Python str operations).                                   *)
(***************************************************************************)
\* sub lies in s from position i on
OccursAt(sub, s, i) ==
    /\ i + Len(sub) - 1 <= Len(s)
    /\ \A j \in 1..Len(sub) : s[i + j - 1] = sub[j]

\* Python: sub in s
Contains(sub, s) == \E i \in 1..(Len(s) - Len(sub) + 1) : OccursAt(sub, s, i)

\* Python: s.endswith(sub)
EndsWith(s, sub) ==
    /\ Len(sub) <= Len(s)
    /\ OccursAt(sub, s, Len(s) - Len(sub) + 1)

\* index of the first occurrence of sub in s at or after i (0 when there is none)
RECURSIVE FindFrom(_, _, _)
FindFrom(sub, s, i) ==
    IF i + Len(sub) - 1 > Len(s) THEN 0
    ELSE IF OccursAt(sub, s, i) THEN i
    ELSE FindFrom(sub, s, i + 1)
Find(sub, s) == FindFrom(sub, s, 1)

\* Python: s.split(sep, 1), a list of one or two parts
Split1(s, sep) ==
    IF Contains(sep, s)
    THEN << SubSeq(s, 1, Find(sep, s) - 1),
            SubSeq(s, Find(sep, s) + Len(sep), Len(s)) >>
    ELSE << s >>

\* Python: s.replace(old, ""), every occurrence removed, left to right
RECURSIVE Remove(_, _)
Remove(s, old) ==
    IF Contains(old, s)
    THEN SubSeq(s, 1, Find(old, s) - 1)
            \o Remove(SubSeq(s, Find(old, s) + Len(old), Len(s)), old)
    ELSE s

(***************************************************************************)
(* Protocol tokens and the lines the scripted device can send.             *)
(***************************************************************************)
OK_TOKEN == <<"o", "k">>
ERROR_TOKEN == <<"e", "r", "r", "o", "r">>
ERROR_PREFIX == <<"e", "r", "r", "o", "r", ":", " ">>
ALARM_TOKEN == <<"A", "L", "A", "R", "M">>
ALARM_SEP == <<"A", "L", "A", "R", "M", ":", " ">>
RESET_STRING == <<"U", "s", "i", "n", "g", " ", "r", "e", "s", "e", "t", " ", "p", "o", "s", "!">>

LINE_OK == OK_TOKEN
LINE_EMPTY == << >>
LINE_HOMING == <<"h", "o", "m", "e", "i", "n", "g", " ", "m", "o", "v", "i", "n", "g", ".", ".", ".", "o", "k">>
LINE_ERROR == <<"e", "r", "r", "o", "r", ":", " ", "2", "0">>
LINE_ALARM == <<"A", "L", "A", "R", "M", ":", " ", "1">>
LINE_ALARM_NOSEP == <<"A", "L", "A", "R", "M", ":", "1">>
LINE_RESET == RESET_STRING
LINE_INFO == <<"W", "L", "K", "A", "T", "A">>
LINE_ERROR_OK == <<"e", "r", "r", "o", "r", ":", "9", " ", "o", "k">>

ScriptLines ==
    { LINE_OK, LINE_EMPTY, LINE_HOMING, LINE_ERROR, LINE_ALARM,
      LINE_ALARM_NOSEP, LINE_RESET, LINE_INFO, LINE_ERROR_OK }

Packages == { "wlkata_mirobot", "mirobot" }

\* the status query, and the state tags of a status line
QUERY == <<"?">>
STATE_IDLE == <<"I", "d", "l", "e">>
STATE_RUN == <<"R", "u", "n">>
STATE_ALARM == <<"A", "l", "a", "r", "m">>
STATE_HOME == <<"H", "o", "m", "e">>
StateTags == { STATE_IDLE, STATE_RUN, STATE_ALARM, STATE_HOME }

(***************************************************************************)
(* Logging: logging levels, and the handler every logger of the client     *)
(* carries.                                                                *)
(***************************************************************************)
LOG_ERROR == 40
LOG_WARNING == 30
LOG_DEBUG == 10

\* the constructor's default for debug
debug_of(p) == p = "mirobot"

\* ExitOnExceptionStreamHandler.emit: TRUE when emitting the record raises
\* SystemExit
emit_no_exit(levelno) == FALSE
emit(levelno) == levelno >= LOG_ERROR

\* logger.error(exc): the log with the record added, and whether the call
\* raised SystemExit
logger_error_as_warning(lg, exc, text) ==
    [ log |-> Append(lg, [level |-> LOG_WARNING, exc |-> exc, text |-> text]),
      exit |-> emit(LOG_WARNING) ]
logger_error(lg, exc, text) ==
    [ log |-> Append(lg, [level |-> LOG_ERROR, exc |-> exc, text |-> text]),
      exit |-> emit(LOG_ERROR) ]

(***************************************************************************)
(* The line reader as wait_for_ok sees it.  A read yields a str, or, when  *)
(* nothing arrived before the timeout, what the package's reader returns   *)
(* then: "" in wlkata_mirobot, b'' in mirobot.                             *)
(***************************************************************************)
StrVal(text) == [kind |-> "str", text |-> text]
BytesEmpty == [kind |-> "bytes", text |-> << >>]

\* DeviceSerial.readline on a timeout with nothing received
readline_timeout_bytes == [kind |-> "bytes", text |-> << >>]
readline_timeout == StrVal(<< >>)
\* SerialDevice.listen_to_device on a timeout
listen_to_device_timeout == BytesEmpty

ReadTimeout(p) ==
    IF p = "wlkata_mirobot" THEN readline_timeout ELSE listen_to_device_timeout

(***************************************************************************)
(* wait_for_ok                                                             *)
(***************************************************************************)
ok_eols == << OK_TOKEN >>
reset_strings == << RESET_STRING >>

matches_eol_strings(terms, s) ==
    \E k \in 1..Len(terms) : EndsWith(s, terms[k]) \/ Contains(terms[k], s)

eols_ok_only(re) == ok_eols
eols(re) == IF re THEN ok_eols \o reset_strings ELSE ok_eols

eol_threshold_zero == 0
eol_threshold == 1

\* One pass of the loop body on the value msg the reader returned.
\* exc is the exception that leaves the loop ("none": the pass completed).
wait_for_ok_body(msg, out, cnt, lg, re) ==
    IF msg.kind # "str"
    THEN \* 'error' in b'' : TypeError
         [exc |-> "TypeError", output |-> out, eol_counter |-> cnt, log |-> lg]
    ELSE
    LET s == msg.text
        e1 == IF Contains(ERROR_TOKEN, s)
              THEN logger_error(lg, "MirobotError", Remove(s, ERROR_PREFIX))
              ELSE [log |-> lg, exit |-> FALSE]
    IN  IF e1.exit
        THEN [exc |-> "SystemExit", output |-> out, eol_counter |-> cnt, log |-> e1.log]
        ELSE
        IF Contains(ALARM_TOKEN, s) /\ Len(Split1(s, ALARM_SEP)) < 2
        THEN \* msg.split('ALARM: ', 1)[1] : IndexError
             [exc |-> "IndexError", output |-> out, eol_counter |-> cnt, log |-> e1.log]
        ELSE
        LET e2 == IF Contains(ALARM_TOKEN, s)
                  THEN logger_error(e1.log, "MirobotAlarm", Split1(s, ALARM_SEP)[2])
                  ELSE [log |-> e1.log, exit |-> FALSE]
        IN  IF e2.exit
            THEN [exc |-> "SystemExit", output |-> out, eol_counter |-> cnt, log |-> e2.log]
            ELSE
            LET out2 == Append(out, s)
                e3 == IF ~re /\ matches_eol_strings(reset_strings, s)
                      THEN logger_error(e2.log, "MirobotReset", << >>)
                      ELSE [log |-> e2.log, exit |-> FALSE]
            IN  IF e3.exit
                THEN [exc |-> "SystemExit", output |-> out2, eol_counter |-> cnt, log |-> e3.log]
                ELSE [exc |-> "none", output |-> out2,
                      eol_counter |-> IF matches_eol_strings(eols(re), out2[Len(out2)])
                                      THEN cnt + 1 ELSE cnt,
                      log |-> e3.log]


(***************************************************************************)
(* The status line and _parse_status.                                      *)
(*                                                                         *)
(* state_regex is a chain literal, group, literal, ..., group, literal.     *)
(* The groups are: 1 the state (any characters but a comma, maybe none),   *)
(* 2 the angles and 3 the cartesians (characters - . , and digits, maybe   *)
(* none), 4 the pump PWM and 5 the valve PWM (one digit or more), 6 the    *)
(* motion mode (one digit).                                                *)
(* A float is modelled as an exact decimal [num, exp], num / 10^exp with   *)
(* exp minimal; an optional value as << >> (None) or << v >>.              *)
(***************************************************************************)
LIT_OPEN == <<"<">>
LIT_ANGLE == <<",", "A", "n", "g", "l", "e", "(", "A", "B", "C", "D", "X", "Y", "Z", ")", ":">>
LIT_CARTESIAN == <<",", "C", "a", "r", "t", "e", "s", "i", "a", "n", " ", "c", "o", "o", "r", "d", "i", "n", "a", "t", "e", "(", "X", "Y", "Z", " ", "R", "x", "R", "y", "R", "z", ")", ":">>
LIT_PUMP == <<",", "P", "u", "m", "p", " ", "P", "W", "M", ":">>
LIT_VALVE == <<",", "V", "a", "l", "v", "e", " ", "P", "W", "M", ":">>
LIT_MODE == <<",", "M", "o", "t", "i", "o", "n", "_", "M", "O", "D", "E", ":">>
LIT_CLOSE == <<">">>

DigitChars == <<"0", "1", "2", "3", "4", "5", "6", "7", "8", "9">>
Digits == { DigitChars[i] : i \in 1..10 }
DigitValue(c) == (CHOOSE i \in 1..10 : DigitChars[i] = c) - 1

\* the character class of group k
InClass(k, c) ==
    CASE k = 1 -> c # ","
      [] k \in {2, 3} -> c \in Digits \cup {"-", ".", ","}
      [] OTHER -> c \in Digits
\* least and greatest number of characters of group k (-1: no limit)
GroupMin(k) == IF k \in {1, 2, 3} THEN 0 ELSE 1
GroupMax(k) == IF k = 6 THEN 1 ELSE -1
\* the literal that follows group k
LitAfter(k) ==
    CASE k = 1 -> LIT_ANGLE
      [] k = 2 -> LIT_CARTESIAN
      [] k = 3 -> LIT_PUMP
      [] k = 4 -> LIT_VALVE
      [] k = 5 -> LIT_MODE
      [] OTHER -> LIT_CLOSE

LitAt(s, i, lit) == OccursAt(lit, s, i)

\* the number of characters of group k's class that s holds from position i on
RECURSIVE Run(_, _, _)
Run(s, i, k) ==
    IF i <= Len(s) /\ InClass(k, s[i]) THEN 1 + Run(s, i + 1, k) ELSE 0

\* groups k..6, each with its literal, matched from position i: the greedy
\* match with backtracking takes, for each group in turn, the longest run
\* that lets the rest match.  GroupEnding tries the end e of group k, then
\* the shorter ones down to least.
RECURSIVE MatchGroups(_, _, _)
RECURSIVE GroupEnding(_, _, _, _, _)
GroupEnding(s, k, i, e, least) ==
    IF e < least
    THEN [ok |-> FALSE, caps |-> << >>]
    ELSE IF ~LitAt(s, e, LitAfter(k))
         THEN GroupEnding(s, k, i, e - 1, least)
         ELSE LET rest == MatchGroups(s, k + 1, e + Len(LitAfter(k)))
              IN  IF rest.ok
                  THEN [ok |-> TRUE, caps |-> << SubSeq(s, i, e - 1) >> \o rest.caps]
                  ELSE GroupEnding(s, k, i, e - 1, least)
MatchGroups(s, k, i) ==
    IF k > 6
    THEN [ok |-> TRUE, caps |-> << >>]
    ELSE LET run == Run(s, i, k)
             most == IF GroupMax(k) >= 0 /\ GroupMax(k) < run THEN GroupMax(k) ELSE run
         IN  GroupEnding(s, k, i, i + most, i + GroupMin(k))

MatchAt(s, i) ==
    IF LitAt(s, i, LIT_OPEN)
    THEN MatchGroups(s, 1, i + 1)
    ELSE [ok |-> FALSE, caps |-> << >>]

\* re.match(state_regex, msg): at the start of msg only
re_match(s) == MatchAt(s, 1)
\* re.search(state_regex, msg): at the leftmost position that matches
RECURSIVE SearchFrom(_, _)
SearchFrom(s, i) ==
    IF i > Len(s) THEN [ok |-> FALSE, caps |-> << >>]
    ELSE LET m == MatchAt(s, i)
         IN  IF m.ok THEN m ELSE SearchFrom(s, i + 1)
re_search(s) == SearchFrom(s, 1)

\* str.split(','): the parts between the commas (one part for no comma)
RECURSIVE SplitComma(_)
SplitComma(s) ==
    IF Contains(<<",">>, s)
    THEN << SubSeq(s, 1, Find(<<",">>, s) - 1) >>
            \o SplitComma(SubSeq(s, Find(<<",">>, s) + 1, Len(s)))
    ELSE << s >>

RECURSIVE DigitsToNat(_)
DigitsToNat(ds) ==
    IF ds = << >> THEN 0
    ELSE 10 * DigitsToNat(SubSeq(ds, 1, Len(ds) - 1)) + DigitValue(ds[Len(ds)])

AllDigits(ds) == \A i \in 1..Len(ds) : ds[i] \in Digits

RECURSIVE StripZeros(_)
StripZeros(ds) ==
    IF ds # << >> /\ ds[Len(ds)] = "0" THEN StripZeros(SubSeq(ds, 1, Len(ds) - 1)) ELSE ds

\* float(tok) on a token of the characters - . 0..9: the sign, the integer
\* digits, at most one point, the fraction digits, and at least one digit
FloatParts(tok) ==
    LET neg == tok # << >> /\ tok[1] = "-"
        body == IF neg THEN Tail(tok) ELSE tok
        dot == Find(<<".">>, body)
        ip == IF dot = 0 THEN body ELSE SubSeq(body, 1, dot - 1)
        fp == IF dot = 0 THEN << >> ELSE SubSeq(body, dot + 1, Len(body))
    IN  [neg |-> neg, ip |-> ip, fp |-> fp]
FloatOk(tok) ==
    LET p == FloatParts(tok)
    IN  /\ AllDigits(p.ip)
        /\ AllDigits(p.fp)
        /\ Len(p.ip) + Len(p.fp) >= 1
FloatValue(tok) ==
    LET p == FloatParts(tok)
        fz == StripZeros(p.fp)
        n == DigitsToNat(p.ip \o fz)
    IN  [num |-> IF p.neg THEN 0 - n ELSE n, exp |-> Len(fz)]

None == << >>
Some(v) == << v >>

\* the keys the angle values are zipped with, in this order
ANGLE_KEYS == <<"x", "y", "z", "d", "a", "b", "c">>

\* MirobotAngles(**dict(zip('xyzdabc', map(float, tokens)))): zip stops with
\* the shorter of the two, so only the first seven tokens are converted, and
\* a key without a token keeps the default None
AnglesConverted(toks) == { i \in 1..Len(toks) : i <= Len(ANGLE_KEYS) }
AnglesOk(toks) == \A i \in AnglesConverted(toks) : FloatOk(toks[i])
AnglesOf(toks) ==
    [ key \in { ANGLE_KEYS[i] : i \in 1..Len(ANGLE_KEYS) } |->
        LET i == CHOOSE j \in 1..Len(ANGLE_KEYS) : ANGLE_KEYS[j] = key
        IN  IF i <= Len(toks) THEN Some(FloatValue(toks[i])) ELSE None ]

\* MirobotCartesians(*map(float, tokens)): every token is converted, and more
\* than six positional arguments are a TypeError
CARTESIAN_FIELDS == <<"x", "y", "z", "a", "b", "c">>
CartesiansOk(toks) ==
    /\ \A i \in 1..Len(toks) : FloatOk(toks[i])
    /\ Len(toks) <= Len(CARTESIAN_FIELDS)
CartesiansOf(toks) ==
    [ key \in { CARTESIAN_FIELDS[i] : i \in 1..Len(CARTESIAN_FIELDS) } |->
        LET i == CHOOSE j \in 1..Len(CARTESIAN_FIELDS) : CARTESIAN_FIELDS[j] = key
        IN  IF i <= Len(toks) THEN Some(FloatValue(toks[i])) ELSE None ]

\* bool(motion_mode) of the one-character str the group captured
motion_mode_of(digit) == digit # << >>

\* MirobotStatus(): the default snapshot
DefaultStatus ==
    [ state |-> << >>,
      angle |-> AnglesOf(<< >>),
      cartesian |-> CartesiansOf(<< >>),
      pump_pwm |-> None,
      valve_pwm |-> None,
      motion_mode |-> FALSE ]

\* _parse_status(msg) of package p: ret and status of the returned pair, exc the
\* exception that leaves the method ("none": it returned), and the log
_parse_status(p, msg, lg) ==
    LET m == IF p = "wlkata_mirobot" THEN re_search(msg) ELSE re_match(msg)
        failed(e) ==
            \* wlkata_mirobot logs the failure at ERROR level; mirobot prints it
            IF p = "wlkata_mirobot" /\ e.exit
            THEN [ret |-> FALSE, status |-> None, exc |-> "SystemExit", log |-> e.log]
            ELSE [ret |-> FALSE, status |-> None, exc |-> "none",
                  log |-> IF p = "wlkata_mirobot" THEN e.log ELSE lg]
    IN  IF ~m.ok
        THEN failed(logger_error(lg, "MirobotStatusError", msg))
        ELSE LET angles == SplitComma(m.caps[2])
                 cartesians == SplitComma(m.caps[3])
             IN  IF AnglesOk(angles) /\ CartesiansOk(cartesians)
                 THEN [ret |-> TRUE,
                       status |-> Some([ state |-> m.caps[1],
                                         angle |-> AnglesOf(angles),
                                         cartesian |-> CartesiansOf(cartesians),
                                         pump_pwm |-> Some(DigitsToNat(m.caps[4])),
                                         valve_pwm |-> Some(DigitsToNat(m.caps[5])),
                                         motion_mode |-> motion_mode_of(m.caps[6]) ]),
                       exc |-> "none", log |-> lg]
                 ELSE failed(logger_error(lg, "MirobotStatusError", msg))

(***************************************************************************)
(* State.                                                                  *)
(***************************************************************************)
VARIABLES
    pkg,            \* the package whose code runs
    pc,             \* where the client is: "ready", "wfo", ..., or how it ended
    frame,          \* who runs the code at pc: "direct" (the caller itself),
                    \* "cmd" (send of a command), "query" (send of a '?'),
                    \* "connect" (connect of the serial interface)
    reset_expected, \* wait_for_ok's argument
    output,         \* wait_for_ok: the lines collected, after the seed ''
    eol_counter,    \* wait_for_ok: acknowledgements counted
    nread,          \* reads made by the running wait_for_ok
    log,            \* records handed to the logger
    result,         \* what the last finished call returned
    script,         \* scripted reader: the results still to be returned
    script0,        \* scripted reader: the whole script (history)
    idle_reads,     \* reads that found nothing, in the running wait
    is_open,        \* the port is open
    wait_default,   \* the instance default self.wait / self.wait_ok
    rx,             \* receive buffer of the port: lines [text, for, lid]
    tx,             \* the lines written to the port, in order
    dev,            \* lines the device has still to put on the wire
    connection_type, \* "serial" or "bluetooth"
    _is_open,       \* DeviceSerial._is_open, the flag close and send test
    scope,          \* "in": the client is the subject of a running with
                    \* statement; "exited": __exit__ has run; else "none"
    ops,            \* the value of ncalls at each disconnect so far
    ok_counter,     \* BluetoothLowEnergyInterface.ok_counter
    portname,       \* DeviceSerial.portname
    serialport_port, \* serialport.port, the port the serial port was opened on last
    connection,     \* BluetoothLowEnergyInterface.connection
    last_op,        \* "disconnect": disconnect was called, and connect has not
                    \* opened the transport since; "connect": connect has
                    \* opened the transport or found it open, and disconnect
                    \* was not called since; "none": neither was called
    autoconnect,    \* the constructor's argument autoconnect
    dev_defect,     \* the defect [d, bad] of the next n status lines of the device
    dev_mode,       \* "prompt": a reply is in rx when the write returns;
                    \* "free": replies arrive at any later time;
                    \* "silent": the device sends nothing
    faults,         \* [lid, text, left] of the lines the device sent unasked;
                    \* left: how the line left the receive buffer, or "no"
    busy,           \* status replies that will still report a moving arm
    arrived,        \* number of lines that have reached rx so far
    status,         \* self.status: None or the committed snapshot
    cur,            \* the arguments of the running or last send_msg call
    sending,        \* the line the running send writes
    send_output,    \* send's local variable output
    ncalls,         \* public calls made
    npolls,         \* '?' lines written by the running wait_until_idle
    poll_n,         \* value of busy when the running wait_until_idle began
    ran_wfo,        \* the running send has called wait_for_ok
    ran_poll,       \* the running send has called wait_until_idle
    unresolved,     \* indices in tx of the lines written and not yet resolved
    got,            \* [for, lid] of the lines the running send has collected
    drain_mark,     \* value of arrived when the running send drained rx
    drained,        \* number of lines the drains have discarded so far
    only_ack,       \* every call so far waited for ok and not for idle
    p_line,         \* function harness: the line handed to _parse_status
    p_snap,         \* function harness: the values the input was built from
    p_out,          \* function harness: what the function returned
    pending,        \* the send_msg calls the running public method has yet to make
    called,         \* the public method that was called last, and its arguments
    reset_output,   \* reset_configuration's dict output: its items [key, value]
    in_buf,         \* reader: the bytes in the port's input buffer, not yet read
    rd_all,         \* reader: every byte the device has sent so far
    msg_recv,       \* reader: DeviceSerial.readline's msg_recv
    rd_pc,          \* reader: "idle", "loop" (the while test), "read" (in
                    \* serialport.readline) or "done"
    timed_out,      \* reader: timeout seconds have passed since t_start
    rd_ret          \* reader: the value the call returned

wfoVars == << reset_expected, output, eol_counter, nread >>
scriptVars == << script, script0, idle_reads >>
ctlVars == << pc, frame, result, status, sending, send_output, npolls, ran_wfo, ran_poll >>
portVars == << rx, tx, dev, dev_defect, faults, busy, arrived >>
callVars == << cur, ncalls, poll_n >>
ghostVars == << unresolved, got, drain_mark, drained, only_ack >>
connVars == << portname, serialport_port, connection, last_op, autoconnect >>
confVars ==
    << is_open, wait_default, dev_mode, connection_type, _is_open, scope, ops, ok_counter,
       connVars >>
\* the session variables wait_for_ok does not touch
sessRest == << confVars, portVars, callVars, ghostVars >>
readerVars == << in_buf, rd_all, msg_recv, rd_pc, timed_out, rd_ret >>
parseVars == << p_line, p_snap, p_out, readerVars >>
methodVars == << pending, called, reset_output >>
vars == << pkg, ctlVars, wfoVars, log, scriptVars, sessRest, parseVars, methodVars >>

NoResult == [kind |-> "none", lines |-> << >>, ok |-> FALSE]
ListResult(ls) == [kind |-> "list", lines |-> ls, ok |-> FALSE]
BoolResult(b) == [kind |-> "bool", lines |-> << >>, ok |-> b]

Exceptions ==
    { "SystemExit", "IndexError", "TypeError", "Exception", "AttributeError", "BleakError" }

\* a scripted reader result: a received line, or a timeout
ScriptItems ==
    { [kind |-> "line", text |-> t] : t \in ScriptLines }
        \cup { [kind |-> "timeout", text |-> << >>] }

Scripts == UNION { [1..n -> ScriptItems] : n \in 1..MaxScript }

\* no public method was called yet
NoMethod == [name |-> "none", args |-> << >>]

\* send_msg's arguments before any call
NoCall ==
    [ msg |-> << >>, var_command |-> FALSE, wait_arg |-> "None",
      wait_idle |-> FALSE, wait |-> FALSE ]

\* the values of the variables a specification does not use
WfoIdle ==
    /\ reset_expected = FALSE
    /\ output = << >>
    /\ eol_counter = 0
    /\ nread = 0
ScriptIdle ==
    /\ script = << >>
    /\ script0 = << >>
\* the port the examples of the packages name
DEFAULT_PORT == "COM3"
PortNames == { DEFAULT_PORT, "COM4" }
\* the connection variables other than the two flags, after a construction
\* that connected to DEFAULT_PORT
ConnIdle ==
    /\ portname = DEFAULT_PORT
    /\ serialport_port = DEFAULT_PORT
    /\ connection = TRUE
    /\ last_op = "none"
    /\ autoconnect = TRUE
SessIdle ==
    /\ is_open = TRUE
    /\ ConnIdle
    /\ wait_default = TRUE
    /\ rx = << >>
    /\ tx = << >>
    /\ dev = << >>
    /\ dev_mode = "free"
    /\ connection_type = "serial"
    /\ _is_open = TRUE
    /\ scope = "none"
    /\ ops = << >>
    /\ ok_counter = 0
    /\ dev_defect = [d |-> "none", bad |-> << >>, n |-> 0]
    /\ faults = {}
    /\ busy = 0
    /\ arrived = 0
    /\ status = Some(DefaultStatus)
    /\ cur = NoCall
    /\ sending = << >>
    /\ send_output = NoResult
    /\ ncalls = 0
    /\ npolls = 0
    /\ poll_n = 0
    /\ ran_wfo = FALSE
    /\ ran_poll = FALSE
    /\ unresolved = {}
    /\ got = {}
    /\ drain_mark = 0
    /\ drained = 0
    /\ only_ack = TRUE
    /\ pending = << >>
    /\ called = NoMethod
    /\ reset_output = << >>
ReaderIdle ==
    /\ in_buf = << >>
    /\ rd_all = << >>
    /\ msg_recv = << >>
    /\ rd_pc = "idle"
    /\ timed_out = FALSE
    /\ rd_ret = << >>
ParseIdle ==
    /\ p_line = << >>
    /\ p_snap = << >>
    /\ p_out = << >>
    /\ ReaderIdle

(***************************************************************************)
(* Control.  The client runs one thread; c is the record of the variables  *)
(* that say where it is and what its frames hold, and an operator on c     *)
(* gives their values after the code it models has run.                    *)
(***************************************************************************)
Here ==
    [ pc |-> pc, frame |-> frame, result |-> result, status |-> status,
      sending |-> sending, send_output |-> send_output, npolls |-> npolls,
      ran_wfo |-> ran_wfo, ran_poll |-> ran_poll ]

Set(c) ==
    /\ pc' = c.pc
    /\ frame' = c.frame
    /\ result' = c.result
    /\ status' = c.status
    /\ sending' = c.sending
    /\ send_output' = c.send_output
    /\ npolls' = c.npolls
    /\ ran_wfo' = c.ran_wfo
    /\ ran_poll' = c.ran_poll

\* send returns val to send_msg, and send_msg to its caller
send_return(c, val) == [c EXCEPT !.pc = "ready", !.frame = "cmd", !.result = val]

\* get_status sends the query: send('?') begins with the drain
send_cmd_get_status(c) ==
    [c EXCEPT !.pc = "send_drain", !.frame = "query", !.sending = QUERY]

\* wait_until_idle's loop condition on the committed status
keep_waiting_never(st) == FALSE
keep_waiting(st) == st = None \/ st[1].state # STATE_IDLE

\* the end of get_status / update_status with the parsed status st, and
\* wait_until_idle's test after it: with no status the query is repeated;
\* otherwise the status is committed, and the wait ends when it is Idle
get_status_end(c, st) ==
    IF st = None
    THEN send_cmd_get_status(c)
    ELSE IF keep_waiting(st)
         THEN send_cmd_get_status([c EXCEPT !.status = st])
         ELSE send_return([c EXCEPT !.status = st], c.send_output)

\* wait_until_idle is called: the first get_status
wait_until_idle(c) ==
    send_cmd_get_status([c EXCEPT !.ran_poll = TRUE, !.npolls = 0])

\* update_status of mirobot on the lines get_status returned: each line with
\* a "<" is parsed, the first that parses ends the scan; st is the status of
\* the last line parsed
RECURSIVE update_status_scan(_, _, _)
update_status_scan(p, lines, st) ==
    IF lines = << >> THEN st
    ELSE IF Contains(LIT_OPEN, Head(lines))
         THEN LET r == _parse_status(p, Head(lines), << >>)
              IN  IF r.ret THEN r.status
                  ELSE update_status_scan(p, Tail(lines), r.status)
         ELSE update_status_scan(p, Tail(lines), st)

\* whether send of package p calls wait_for_ok, and wait_until_idle
send_runs_matcher_exclusive(p, wait, wait_idle) == wait /\ ~wait_idle
send_runs_matcher(p, wait, wait_idle) ==
    IF p = "wlkata_mirobot" THEN wait ELSE wait /\ ~wait_idle
send_runs_poller(p, wait, wait_idle) == wait_idle

\* wait_for_ok has returned val: what its caller does with it
wait_for_ok_returned(c, val) ==
    CASE c.frame = "direct" -> [c EXCEPT !.pc = "returned", !.result = val]
      [] c.frame = "connect" ->
            \* connect of mirobot returns val
            [c EXCEPT !.pc = "ready", !.frame = "cmd", !.result = val]
      [] c.frame = "cmd" ->
            IF pkg = "wlkata_mirobot" /\ send_runs_poller(pkg, cur.wait, cur.wait_idle)
            THEN wait_until_idle([c EXCEPT !.send_output = val])
            ELSE send_return([c EXCEPT !.send_output = val], val)
      [] OTHER ->
            \* mirobot: get_status returns val to update_status
            get_status_end(c, update_status_scan(pkg, val.lines, None))

(***************************************************************************)
(* wait_for_ok, step by step.                                              *)
(***************************************************************************)
\* return output[1:]
wait_for_ok_return_with_seed(c, out) == wait_for_ok_returned(c, ListResult(out))
wait_for_ok_return(c, out) == wait_for_ok_returned(c, ListResult(Tail(out)))

\* the call: the seed, the counter, and the first test of the loop condition
wait_for_ok_enter(c, re) ==
    /\ reset_expected' = re
    /\ output' = << LINE_EMPTY >>
    /\ eol_counter' = 0
    /\ nread' = 0
    /\ Set(IF 0 < eol_threshold
           THEN [c EXCEPT !.pc = "wfo"]
           ELSE wait_for_ok_return(c, << LINE_EMPTY >>))

\* one pass of the loop on the value msg the reader returned
wait_for_ok_pass(c, msg) ==
    LET b == wait_for_ok_body(msg, output, eol_counter, log, reset_expected)
    IN  /\ output' = b.output
        /\ eol_counter' = b.eol_counter
        /\ log' = b.log
        /\ nread' = nread + 1
        /\ reset_expected' = reset_expected
        /\ Set(IF b.exc # "none"
               THEN [c EXCEPT !.pc = b.exc]
               ELSE IF b.eol_counter < eol_threshold
                    THEN [c EXCEPT !.pc = "wfo"]
                    ELSE wait_for_ok_return(c, b.output))

(***************************************************************************)
(* The response matcher on a scripted reader: the reader returns the       *)
(* script's items in order, then times out.                                *)
(***************************************************************************)
ScriptedValue(item) ==
    IF item.kind = "timeout" THEN ReadTimeout(pkg) ELSE StrVal(item.text)

CallWaitForOk ==
    /\ pc = "ready"
    /\ frame = "direct"
    /\ \E re \in BOOLEAN : wait_for_ok_enter(Here, re)
    /\ UNCHANGED << pkg, log, scriptVars, sessRest, parseVars, methodVars >>

WaitForOkScripted ==
    /\ pc = "wfo"
    /\ frame = "direct"
    /\ script # << >>
    /\ wait_for_ok_pass(Here, ScriptedValue(Head(script)))
    /\ script' = Tail(script)
    /\ UNCHANGED << pkg, script0, idle_reads, sessRest, parseVars, methodVars >>

WaitForOkSilence ==
    /\ pc = "wfo"
    /\ frame = "direct"
    /\ script = << >>
    /\ idle_reads < MaxIdleReads
    /\ wait_for_ok_pass(Here, ReadTimeout(pkg))
    /\ idle_reads' = idle_reads + 1
    /\ UNCHANGED << pkg, script, script0, sessRest, parseVars, methodVars >>

InitMatcher ==
    /\ pkg \in Packages
    /\ pc = "ready"
    /\ frame = "direct"
    /\ reset_expected = FALSE
    /\ output = << >>
    /\ eol_counter = 0
    /\ nread = 0
    /\ log = << >>
    /\ result = NoResult
    /\ script \in Scripts
    /\ script0 = script
    /\ idle_reads = 0
    /\ SessIdle
    /\ ParseIdle

NextMatcher ==
    \/ CallWaitForOk
    \/ WaitForOkScripted
    \/ WaitForOkSilence

SpecMatcher == InitMatcher /\ [][NextMatcher]_vars


(***************************************************************************)
(* Properties of the response matcher (SpecMatcher).                       *)
(***************************************************************************)
ScriptTexts(sc) == [i \in 1..Len(sc) |-> sc[i].text]
AllLines(sc) == \A i \in 1..Len(sc) : sc[i].kind = "line"
LastText(sc) == sc[Len(sc)].text
\* the script's lines before the last one
Earlier(sc) == { sc[i].text : i \in 1..(Len(sc) - 1) }
Last(q) == q[Len(q)]

\* wait_for_ok(reset_expected=False) has been called on a script of received
\* lines that ends in a line equal to "ok"
C1_Case ==
    /\ pc # "ready"
    /\ ~reset_expected
    /\ AllLines(script0)
    /\ LastText(script0) = LINE_OK

C1_Outcome ==
    /\ pc = "wfo" => nread < Len(script0)
    /\ pc # "wfo" =>
        /\ pc = "returned"
        /\ nread = Len(script0)
        /\ result = ListResult(ScriptTexts(script0))

\* C1 as claimed: on every script of received lines ending in "ok" the call
\* returns after reading exactly the last line, with all the lines in order and
\* without the seed.
C1_Original == C1_Case => C1_Outcome

C1_EarlierPlain ==
    \A t \in Earlier(script0) :
        /\ ~Contains(OK_TOKEN, t)
        /\ ~Contains(ERROR_TOKEN, t)
        /\ ~Contains(ALARM_TOKEN, t)
        /\ ~Contains(RESET_STRING, t)

\* C1 amended: when moreover no earlier line contains "ok", "error", "ALARM"
\* or "Using reset pos!", the call returns after reading exactly the last line,
\* with all the lines read in order and without the seed.
C1_Amended == (C1_Case /\ C1_EarlierPlain) => C1_Outcome

C1_Witness ==
    /\ C1_Case
    /\ C1_EarlierPlain
    /\ Len(script0) >= 2
    /\ pc = "returned"
    /\ result.lines = ScriptTexts(script0)

\* wait_for_ok(reset_expected=False) has been called on a script of received
\* lines whose last line is the reset banner
C5_Case ==
    /\ pc # "ready"
    /\ ~reset_expected
    /\ AllLines(script0)
    /\ LastText(script0) = LINE_RESET

C5_Outcome ==
    /\ pc # "returned"
    /\ pc = "wfo" => nread < Len(script0)
    /\ pc # "wfo" =>
        /\ pc = "SystemExit"
        /\ log # << >>
        /\ Last(log).exc = "MirobotReset"

\* C5 as claimed: on every script whose last line is "Using reset pos!" the call
\* does not return normally and raises the reset condition.
C5_Original == C5_Case => C5_Outcome

C5_EarlierPlain ==
    \A t \in Earlier(script0) :
        /\ ~Contains(OK_TOKEN, t)
        /\ ~Contains(ERROR_TOKEN, t)
        /\ ~Contains(ALARM_TOKEN, t)

\* C5 amended: when no earlier line contains "ok", "error" or "ALARM", the call
\* does not return normally: it logs MirobotReset at ERROR level and the
\* handler raises SystemExit, at the latest on the last line.
C5_Amended == (C5_Case /\ C5_EarlierPlain) => C5_Outcome

C5_Witness ==
    /\ C5_Case
    /\ C5_EarlierPlain
    /\ Len(script0) >= 2
    /\ nread = Len(script0)
    /\ pc = "SystemExit"
    /\ Last(log).exc = "MirobotReset"

\* the line the last read returned contains "error" or "ALARM"
C6_Case ==
    /\ pc # "ready"
    /\ nread \in 1..Len(script0)
    /\ idle_reads = 0
    /\ script0[nread].kind = "line"
    /\ \/ Contains(ERROR_TOKEN, script0[nread].text)
       \/ Contains(ALARM_TOKEN, script0[nread].text)

IsTerminator(t) == Contains(OK_TOKEN, t) \/ Contains(RESET_STRING, t)
FirstTerminator(sc) ==
    IF \E k \in 1..Len(sc) : IsTerminator(sc[k].text)
    THEN CHOOSE k \in 1..Len(sc) :
            /\ IsTerminator(sc[k].text)
            /\ \A j \in 1..(k - 1) : ~IsTerminator(sc[j].text)
    ELSE 0

\* wait_for_ok(reset_expected=True) has been called on a script of received
\* lines, one of which contains "ok" or "Using reset pos!"
C24_Case ==
    /\ pc # "ready"
    /\ reset_expected
    /\ AllLines(script0)
    /\ FirstTerminator(script0) > 0

C24_Outcome ==
    LET k == FirstTerminator(script0)
    IN  /\ pc = "wfo" => nread < k
        /\ pc # "wfo" =>
            /\ pc = "returned"
            /\ nread = k
            /\ result = ListResult(SubSeq(ScriptTexts(script0), 1, k))
        /\ \A i \in 1..Len(log) : log[i].exc # "MirobotReset"

C24_NoReport ==
    \A j \in 1..FirstTerminator(script0) :
        /\ ~Contains(ERROR_TOKEN, script0[j].text)
        /\ ~Contains(ALARM_TOKEN, script0[j].text)

C25_Case ==
    /\ pc # "ready"
    /\ nread \in 1..Len(script0)
    /\ idle_reads = 0
    /\ script0[nread].kind = "line"
    /\ Contains(ERROR_TOKEN, script0[nread].text)
    /\ EndsWith(script0[nread].text, OK_TOKEN)

RECURSIVE NatToDigits(_)
NatToDigits(n) ==
    IF n < 10 THEN << DigitChars[n + 1] >>
    ELSE NatToDigits(n \div 10) \o << DigitChars[(n % 10) + 1] >>

RECURSIVE Pow10(_)
Pow10(e) == IF e = 0 THEN 1 ELSE 10 * Pow10(e - 1)

\* the decimal [num, exp], exp <= 3, printed with three decimals
FormatFloat(v) ==
    LET n == IF v.num < 0 THEN 0 - v.num ELSE v.num
        scaled == n * Pow10(3 - v.exp)
        fp == scaled % 1000
    IN  (IF v.num < 0 THEN <<"-">> ELSE << >>)
            \o NatToDigits(scaled \div 1000) \o <<".">>
            \o << DigitChars[(fp \div 100) + 1],
                  DigitChars[((fp \div 10) % 10) + 1],
                  DigitChars[(fp % 10) + 1] >>

RECURSIVE JoinComma(_)
JoinComma(parts) ==
    IF Len(parts) = 0 THEN << >>
    ELSE IF Len(parts) = 1 THEN parts[1]
    ELSE parts[1] \o <<",">> \o JoinComma(Tail(parts))

\* the status line for the field values f
FormatStatus(f) ==
    LIT_OPEN \o f.state
        \o LIT_ANGLE \o JoinComma([i \in 1..Len(f.angles) |-> FormatFloat(f.angles[i])])
        \o LIT_CARTESIAN
        \o JoinComma([i \in 1..Len(f.cartesians) |-> FormatFloat(f.cartesians[i])])
        \o LIT_PUMP \o NatToDigits(f.pump)
        \o LIT_VALVE \o NatToDigits(f.valve)
        \o LIT_MODE \o NatToDigits(f.mode)
        \o LIT_CLOSE

Dec(n, e) == [num |-> n, exp |-> e]
AngleSamples ==
    { << Dec(0, 0), Dec(0, 0), Dec(0, 0), Dec(0, 0), Dec(0, 0), Dec(0, 0), Dec(0, 0) >>,
      << Dec(15, 1), Dec(-225, 2), Dec(3, 0), Dec(40, 0), Dec(-5125, 3), Dec(605, 1), Dec(7, 0) >>,
      << Dec(-1, 3), Dec(100, 0), Dec(-90, 0), Dec(1, 1), Dec(2, 0), Dec(-35, 1), Dec(12, 2) >> }
CartesianSamples ==
    { << Dec(19867, 2), Dec(0, 0), Dec(23072, 2), Dec(0, 0), Dec(0, 0), Dec(0, 0) >>,
      << Dec(-125, 1), Dec(3125, 3), Dec(7, 0), Dec(1, 3), Dec(-5, 1), Dec(90, 0) >> }
PumpSamples == { 0, 500, 1000 }
ValveSamples == { 40, 65 }
ModeDigits == { 0, 1 }

FieldValues ==
    [ state : StateTags, angles : AngleSamples, cartesians : CartesianSamples,
      pump : PumpSamples, valve : ValveSamples, mode : ModeDigits ]

\* the status line with the given texts in its groups
FormatLine(state, atoks, ctoks, pump, valve, mode, close) ==
    LIT_OPEN \o state
        \o LIT_ANGLE \o JoinComma(atoks)
        \o LIT_CARTESIAN \o JoinComma(ctoks)
        \o LIT_PUMP \o pump
        \o LIT_VALVE \o valve
        \o LIT_MODE \o mode
        \o close

\* tokens of the characters - . , 0..9 that are no number
BadTokens == { <<"1", ".", "2", ".", "3">>, <<"-">>, << >>, <<"1", "-", "2">> }
\* a token with a character the groups do not allow
TOKEN_NAN == <<"n", "a", "n">>

NoDefect == [d |-> "none", bad |-> << >>, n |-> 0]

Defects ==
    { "angles_6", "angles_8", "angles_0", "cartesians_5", "cartesians_7",
      "cartesians_0", "angle_token", "cartesian_token", "angle_token_8",
      "letters", "no_close", "no_pump" }

\* s with element i replaced by t
Replace(s, i, t) == [j \in 1..Len(s) |-> IF j = i THEN t ELSE s[j]]

\* the line for the field values f with defect d made with the token bad
DefectLine(f, d, bad) ==
    LET at == [i \in 1..Len(f.angles) |-> FormatFloat(f.angles[i])]
        ct == [i \in 1..Len(f.cartesians) |-> FormatFloat(f.cartesians[i])]
        at2 == CASE d = "angles_6" -> SubSeq(at, 1, 6)
                 [] d = "angles_8" -> Append(at, FormatFloat(Dec(8, 0)))
                 [] d = "angles_0" -> << >>
                 [] d = "angle_token" -> Replace(at, 3, bad)
                 [] d = "angle_token_8" -> Append(at, bad)
                 [] d = "letters" -> Replace(at, 3, TOKEN_NAN)
                 [] OTHER -> at
        ct2 == CASE d = "cartesians_5" -> SubSeq(ct, 1, 5)
                 [] d = "cartesians_7" -> Append(ct, FormatFloat(Dec(7, 0)))
                 [] d = "cartesians_0" -> << >>
                 [] d = "cartesian_token" -> Replace(ct, 6, bad)
                 [] OTHER -> ct
    IN  FormatLine(f.state, at2, ct2,
                   IF d = "no_pump" THEN << >> ELSE NatToDigits(f.pump),
                   NatToDigits(f.valve), NatToDigits(f.mode),
                   IF d = "no_close" THEN << >> ELSE LIT_CLOSE)

BadFieldValues ==
    { f \in FieldValues : f.state \in {STATE_IDLE, STATE_RUN} /\ f.valve = 40 }

\* the snapshot that holds the field values f: token i of the angles is the
\* field ANGLE_KEYS[i], token i of the cartesians the field CARTESIAN_FIELDS[i]
SnapshotOf(f) ==
    [ state |-> f.state,
      angle |-> [ key \in { ANGLE_KEYS[i] : i \in 1..Len(ANGLE_KEYS) } |->
                    Some(f.angles[CHOOSE j \in 1..Len(ANGLE_KEYS) : ANGLE_KEYS[j] = key]) ],
      cartesian |-> [ key \in { CARTESIAN_FIELDS[i] : i \in 1..Len(CARTESIAN_FIELDS) } |->
                    Some(f.cartesians[CHOOSE j \in 1..Len(CARTESIAN_FIELDS) : CARTESIAN_FIELDS[j] = key]) ],
      pump_pwm |-> Some(f.pump),
      valve_pwm |-> Some(f.valve),
      motion_mode |-> (f.mode = 1) ]

ParseStatus ==
    /\ pc = "ready"
    /\ frame = "parse"
    /\ LET r == _parse_status(pkg, p_line, log)
       IN  /\ p_out' = Some([ret |-> r.ret, status |-> r.status])
           /\ log' = r.log
           /\ pc' = IF r.exc = "none" THEN "returned" ELSE r.exc
    /\ UNCHANGED << pkg, frame, result, status, sending, send_output, npolls, ran_wfo, ran_poll >>
    /\ UNCHANGED << wfoVars, scriptVars, sessRest, p_line, p_snap, readerVars, methodVars >>

InitParse ==
    /\ pkg \in Packages
    /\ pc = "ready"
    /\ frame = "parse"
    /\ log = << >>
    /\ result = NoResult
    /\ WfoIdle
    /\ ScriptIdle
    /\ idle_reads = 0
    /\ SessIdle
    /\ \E f \in FieldValues :
        /\ p_snap = Some(f)
        /\ p_line = FormatStatus(f)
    /\ p_out = None
    /\ ReaderIdle

NextParse == ParseStatus

SpecParse == InitParse /\ [][NextParse]_vars

(***************************************************************************)
(* Properties of the status parser (SpecParse).                            *)
(***************************************************************************)
\* C10 as claimed: parsing the line built from field values succeeds and
\* returns the snapshot that holds exactly those values, motion_mode being
\* false for the digit 0 and true for the digit 1.
C10_Original ==
    pc # "ready" =>
        /\ pc = "returned"
        /\ p_out = Some([ret |-> TRUE, status |-> Some(SnapshotOf(p_snap[1]))])

\* the same round trip for the lines whose motion-mode digit is 1
C10_ModeOne ==
    (pc # "ready" /\ p_snap[1].mode = 1) =>
        /\ pc = "returned"
        /\ p_out = Some([ret |-> TRUE, status |-> Some(SnapshotOf(p_snap[1]))])


(***************************************************************************)
(* send_msg, send, and the device on the other end of the port.            *)
(***************************************************************************)
Whitespace == { " ", "\t", "\n", "\r" }

\* str.strip()
RECURSIVE Strip(_)
Strip(s) ==
    IF s # << >> /\ s[1] \in Whitespace THEN Strip(Tail(s))
    ELSE IF s # << >> /\ s[Len(s)] \in Whitespace THEN Strip(SubSeq(s, 1, Len(s) - 1))
    ELSE s

\* the variable-command pattern, a dollar, digits, an equals sign, digits and
\* points, matched on the first e characters of s
VarPatternUpTo(s, e) ==
    \E q \in 3..(e - 1) :
        /\ s[1] = "$"
        /\ \A i \in 2..(q - 1) : s[i] \in Digits
        /\ s[q] = "="
        /\ \A i \in (q + 1)..e : s[i] \in Digits \cup {"."}
\* re.match(pattern, s): some prefix of s matches
re_match_var(s) == \E e \in 1..Len(s) : VarPatternUpTo(s, e)
\* re.fullmatch(pattern, s): the whole of s matches
re_fullmatch_var(s) == VarPatternUpTo(s, Len(s))

\* the wait flag send_msg hands to send: wait_arg is "None", "True" or "False"
resolve_wait(p, wait_arg, default) ==
    IF p = "wlkata_mirobot"
    THEN wait_arg = "True"
    ELSE wait_arg = "True" \/ (wait_arg = "None" /\ default)

\* empty_cache: the receive buffer after it
empty_cache_keep(buf) == buf
empty_cache(buf) == << >>

CMD_HOME == <<"$", "H">>
SessionCmds == { CMD_HOME }
WaitArgs == { "None", "True", "False" }

\* what the device answers to the line written as number k of tx: a status
\* line and "ok" to a query, "ok" to a command
DeviceStatus(st) ==
    DefectLine([ state |-> st,
                   angles |-> [i \in 1..7 |-> Dec(0, 0)],
                   cartesians |-> << Dec(19867, 2), Dec(0, 0), Dec(23072, 2),
                                     Dec(0, 0), Dec(0, 0), Dec(0, 0) >>,
                   pump |-> 0, valve |-> 0, mode |-> 0 ],
               IF dev_defect.n > 0 THEN dev_defect.d ELSE "none", dev_defect.bad)
DeviceReplies(line, k, moving) ==
    IF line = QUERY
    THEN << [text |-> DeviceStatus(IF moving > 0 THEN STATE_RUN ELSE STATE_IDLE), for |-> k],
            [text |-> LINE_OK, for |-> k] >>
    ELSE << [text |-> LINE_OK, for |-> k] >>

\* the lines ls as they lie in the receive buffer, numbered by arrival
Stamp(ls, n) ==
    [i \in 1..Len(ls) |-> [text |-> ls[i].text, for |-> ls[i].for, lid |-> n + i]]
Tags(buf) == { [for |-> buf[i].for, lid |-> buf[i].lid] : i \in 1..Len(buf) }
Lids(buf) == { buf[i].lid : i \in 1..Len(buf) }
\* the unasked lines fs after the receive buffer went from buf to buf2
Leave(fs, buf, buf2, how) ==
    { [f EXCEPT !.left = IF f.lid \in Lids(buf) \ Lids(buf2) THEN how ELSE @] : f \in fs }

\* what DeviceSerial.readline returns for the lines that arrived in its
\* window: all of them, decoded and stripped
RECURSIVE JoinLines(_)
JoinLines(buf) ==
    IF Len(buf) = 0 THEN << >>
    ELSE IF Len(buf) = 1 THEN buf[1].text
    ELSE buf[1].text \o <<"\r", "\n">> \o JoinLines(Tail(buf))
readline(buf) == IF buf = << >> THEN readline_timeout ELSE StrVal(Strip(JoinLines(buf)))

\* the property is_connected of the client: of the serial interface the
\* state of the port, of the Bluetooth interface what connect stored
is_connected == IF connection_type = "bluetooth" THEN connection ELSE is_open

send_msg(msg, var_command, wait_arg, wait_idle) ==
    LET wait == resolve_wait(pkg, wait_arg, wait_default)
        text == Strip(msg)
        e == IF is_connected /\ var_command /\ ~re_fullmatch_var(text)
             THEN logger_error(log, "MirobotVariableCommandError", text)
             ELSE [log |-> log, exit |-> FALSE]
    IN  /\ ncalls' = ncalls + 1
        /\ cur' = [ msg |-> msg, var_command |-> var_command, wait_arg |-> wait_arg,
                    wait_idle |-> wait_idle, wait |-> wait ]
        /\ only_ack' = (only_ack /\ wait /\ ~wait_idle)
        /\ log' = e.log
        /\ Set(IF ~is_connected THEN [Here EXCEPT !.pc = "Exception"]
               ELSE IF e.exit THEN [Here EXCEPT !.pc = "SystemExit"]
               ELSE [Here EXCEPT !.pc = "send_drain", !.frame = "cmd", !.sending = text,
                                 !.send_output = NoResult, !.result = NoResult,
                                 !.ran_wfo = FALSE, !.ran_poll = FALSE, !.npolls = 0])
        /\ UNCHANGED << pkg, wfoVars, scriptVars, confVars, portVars, poll_n >>
        /\ UNCHANGED << unresolved, got, drain_mark, drained, parseVars >>

(***************************************************************************)
(* A session: public calls on one connection, the steps of send, and the   *)
(* device putting its replies on the wire (Spec).                          *)
(***************************************************************************)
\* the queries one wait_until_idle may write: with a prompt device one more
\* than the longest motion takes, else MaxPolls
PollBound == IF dev_mode = "prompt" THEN MaxBusy + 2 ELSE MaxPolls

CallSendMsg ==
    /\ pc = "ready"
    /\ frame = "cmd"
    /\ ncalls < MaxCalls
    /\ pending = << >>
    /\ \E msg \in SessionCmds, wait_arg \in WaitArgs, wait_idle \in BOOLEAN :
            send_msg(msg, FALSE, wait_arg, wait_idle)
    /\ UNCHANGED methodVars

\* send: cache_msg = self.empty_cache()
EmptyCache ==
    /\ pc = "send_drain"
    /\ connection_type = "serial"
    /\ rx' = empty_cache(rx)
    /\ drain_mark' = arrived
    /\ drained' = drained + (Len(rx) - Len(rx'))
    /\ got' = {}
    /\ faults' = Leave(faults, rx, rx', "drain")
    /\ log' = IF debug_of(pkg) /\ frame = "cmd" /\ (pkg = "mirobot" \/ rx # << >>)
              THEN Append(log, [level |-> LOG_DEBUG, exc |-> "none", text |-> JoinLines(rx)])
              ELSE log
    /\ Set([Here EXCEPT !.pc = "send_write"])
    /\ UNCHANGED << pkg, wfoVars, scriptVars, confVars, tx, dev, dev_defect, busy, arrived >>
    /\ UNCHANGED << callVars, unresolved, only_ack, parseVars, methodVars >>

\* send: the write, what the device does with the line, and the choice of
\* the wait that follows
SerialWrite ==
    /\ pc = "send_write"
    /\ frame = "query" => npolls < PollBound
    /\ \E n \in (IF frame = "query"
                  THEN { IF busy > 0 THEN busy - 1 ELSE 0 }
                  ELSE 0..MaxBusy) :
        LET k == Len(tx) + 1
            replies == IF dev_mode = "silent" THEN << >>
                       ELSE DeviceReplies(sending, k, busy)
            c0 == IF frame = "query"
                  THEN [Here EXCEPT !.npolls = npolls + 1]
                  ELSE [Here EXCEPT !.send_output = BoolResult(TRUE)]
        IN  /\ tx' = Append(tx, sending)
            /\ busy' = n
            /\ dev_defect' = IF sending = QUERY /\ dev_defect.n > 0
                             THEN [dev_defect EXCEPT !.n = @ - 1]
                             ELSE dev_defect
            /\ poll_n' = IF frame = "cmd" THEN n ELSE poll_n
            /\ IF dev_mode = "prompt"
               THEN /\ rx' = rx \o Stamp(replies, arrived)
                    /\ arrived' = arrived + Len(replies)
                    /\ dev' = dev
               ELSE /\ dev' = dev \o replies
                    /\ UNCHANGED << rx, arrived >>
            /\ unresolved' = unresolved \cup {k}
            /\ idle_reads' = 0
            /\ IF frame = "cmd"
               THEN IF send_runs_matcher(pkg, cur.wait, cur.wait_idle)
                    THEN wait_for_ok_enter([c0 EXCEPT !.ran_wfo = TRUE], FALSE)
                    ELSE /\ Set(IF send_runs_poller(pkg, cur.wait, cur.wait_idle)
                                THEN wait_until_idle(c0)
                                ELSE send_return(c0, BoolResult(TRUE)))
                         /\ UNCHANGED wfoVars
               ELSE IF pkg = "wlkata_mirobot"
                    THEN \* send_msg('?', wait_ok=False): back in send_cmd_get_status
                         /\ Set([c0 EXCEPT !.pc = "poll_read"])
                         /\ UNCHANGED wfoVars
                    ELSE \* send_msg('?', wait=True)
                         wait_for_ok_enter(c0, FALSE)
    /\ UNCHANGED << pkg, log, script, script0, confVars, faults, cur, ncalls >>
    /\ UNCHANGED << got, drain_mark, drained, only_ack, parseVars, methodVars >>

\* wait_for_ok in send: one read of the port and one pass of the loop.
\* wlkata_mirobot reads without blocking; mirobot blocks until a line is there.
WaitForOkRead ==
    /\ pc = "wfo"
    /\ frame \in {"cmd", "query", "connect"}
    /\ IF pkg = "wlkata_mirobot"
       THEN /\ rx = << >> => idle_reads < MaxIdleReads
            /\ idle_reads' = IF rx = << >> THEN idle_reads + 1 ELSE idle_reads
            /\ rx' = << >>
            /\ faults' = Leave(faults, rx, rx', "wait_for_ok")
            /\ got' = got \cup Tags(rx)
            /\ wait_for_ok_pass(Here, readline(rx))
       ELSE /\ rx # << >>
            /\ idle_reads' = idle_reads
            /\ rx' = Tail(rx)
            /\ faults' = Leave(faults, rx, rx', "wait_for_ok")
            /\ got' = got \cup Tags(<< Head(rx) >>)
            /\ wait_for_ok_pass(Here, StrVal(Head(rx).text))
    /\ unresolved' =
            IF pc' = "ready" /\ ran_poll' THEN {}
            ELSE IF eol_counter' > eol_counter THEN unresolved \ {Len(tx)}
            ELSE unresolved
    /\ UNCHANGED << pkg, script, script0, confVars, tx, dev, dev_defect, busy, arrived >>
    /\ UNCHANGED << callVars, drain_mark, drained, only_ack, parseVars, methodVars >>

\* wlkata_mirobot: the read of send_cmd_get_status, the rest of get_status,
\* and wait_until_idle's test
StatusRead ==
    /\ pc = "poll_read"
    /\ LET msg_seg == readline(rx).text
           r == IF Contains(LIT_OPEN, msg_seg) /\ Contains(LIT_CLOSE, msg_seg)
                THEN _parse_status(pkg, msg_seg, log)
                ELSE [ret |-> FALSE, status |-> None, exc |-> "none", log |-> log]
       IN  /\ rx' = << >>
           /\ faults' = Leave(faults, rx, rx', "get_status")
           /\ got' = got \cup Tags(rx)
           /\ log' = r.log
           /\ Set(IF r.exc # "none"
                  THEN [Here EXCEPT !.pc = r.exc]
                  ELSE get_status_end(Here, r.status))
           /\ unresolved' =
                   IF pc' = "ready" THEN {}
                   ELSE IF r.status # None THEN unresolved \ {Len(tx)}
                   ELSE unresolved
    /\ UNCHANGED << pkg, wfoVars, scriptVars, confVars, tx, dev, dev_defect, busy, arrived >>
    /\ UNCHANGED << callVars, drain_mark, drained, only_ack, parseVars, methodVars >>

\* the "ok" lines the wait loops of BluetoothLowEnergyInterface.send count
\* before they stop
ble_ok_threshold == 2
\* the "ok" lines a device may send over Bluetooth in reply to one line
MaxOks == 2
BleOks == 1..MaxOks

\* mirobot over Bluetooth: BluetoothLowEnergyInterface.send as a whole.  The
\* line is written; with wait the notifications are collected until
\* ble_ok_threshold "ok" have been counted: a device that sends fewer leaves
\* the call in its wait loop (pc "ble_wait") for good.  Else, with
\* wait_idle, check_idle writes a query, stores what _parse_status returns,
\* the pair (ret, status), as the status, and the loop condition reads
\* .state of that pair.
BleSend ==
    /\ pc = "send_drain"
    /\ connection_type = "bluetooth"
    /\ is_open
    /\ \E n \in 0..MaxBusy, oks \in BleOks :
        LET k == Len(tx) + 1
            feedback == DeviceReplies(sending, k, busy)
                            \o [i \in 1..(oks - 1) |-> [text |-> LINE_OK, for |-> k]]
            waiting == cur.wait /\ oks < ble_ok_threshold
            polled == cur.wait /\ cur.wait_idle /\ ~waiting
            first == DeviceReplies(QUERY, k + 1, n)[1].text
            r == _parse_status(pkg, first, log)
        IN  /\ tx' = IF polled THEN tx \o << sending, QUERY >> ELSE Append(tx, sending)
            /\ ok_counter' = IF cur.wait THEN oks ELSE 0
            /\ busy' = IF polled /\ n > 0 THEN n - 1 ELSE n
            /\ poll_n' = n
            /\ dev_defect' = IF polled /\ dev_defect.n > 0
                             THEN [dev_defect EXCEPT !.n = @ - 1]
                             ELSE dev_defect
            /\ arrived' = arrived + (IF cur.wait THEN Len(feedback) ELSE 0)
                                   + (IF polled THEN 1 + oks ELSE 0)
            /\ got' = IF cur.wait THEN Tags(Stamp(feedback, arrived)) ELSE {}
            /\ unresolved' = IF cur.wait THEN unresolved ELSE unresolved \cup {k}
            /\ log' = IF polled THEN r.log ELSE log
            /\ Set(IF ~cur.wait
                   THEN send_return(Here, ListResult(<< >>))
                   ELSE IF waiting
                        THEN [Here EXCEPT !.ran_wfo = TRUE, !.pc = "ble_wait"]
                   ELSE IF ~cur.wait_idle
                        THEN send_return([Here EXCEPT !.ran_wfo = TRUE],
                                         ListResult([i \in 1..Len(feedback) |-> feedback[i].text]))
                        ELSE [Here EXCEPT !.ran_wfo = TRUE, !.ran_poll = TRUE, !.npolls = 1,
                                          !.status = << r.ret, r.status >>,
                                          !.pc = "AttributeError"])
    /\ UNCHANGED << pkg, wfoVars, scriptVars, rx, dev, faults, cur, ncalls >>
    /\ UNCHANGED << is_open, wait_default, dev_mode, connection_type, _is_open, scope, ops >>
    /\ UNCHANGED << connVars, drain_mark, drained, only_ack, parseVars, methodVars >>

\* the lines a device may send unasked
FaultLines == { LINE_ERROR, LINE_ALARM, LINE_RESET }

\* the device sends a line nobody asked for
DeviceFault ==
    /\ pc \notin Exceptions
    /\ Cardinality(faults) < MaxFaults
    /\ \E t \in FaultLines :
        /\ rx' = rx \o Stamp(<< [text |-> t, for |-> 0] >>, arrived)
        /\ faults' = faults \cup { [lid |-> arrived + 1, text |-> t, left |-> "no"] }
    /\ arrived' = arrived + 1
    /\ UNCHANGED << pkg, ctlVars, wfoVars, log, scriptVars, confVars, tx, dev, dev_defect, busy >>
    /\ UNCHANGED << callVars, ghostVars, parseVars, methodVars >>

\* DeviceSerial.close: the flag and the port after it
close_flag_only(flag, port) == [_is_open |-> FALSE, is_open |-> port]
close(flag, port) ==
    IF flag
    THEN [_is_open |-> FALSE, is_open |-> FALSE]
    ELSE [_is_open |-> flag, is_open |-> port]

\* disconnect of the client and of its serial interface: with a device and
\* a serial_device, close
disconnect_no_device(flag, port) == [_is_open |-> flag, is_open |-> port]
disconnect(flag, port) == close(flag, port)
\* disconnect of the Bluetooth interface: the client disconnects
ble_disconnect(flag, port) == [_is_open |-> flag, is_open |-> FALSE]

\* a public call of disconnect between two commands
Disconnect ==
    /\ pc = "ready"
    /\ frame = "cmd"
    /\ Len(ops) < MaxCloses
    /\ LET d == IF connection_type = "bluetooth"
                THEN ble_disconnect(_is_open, is_open)
                ELSE disconnect(_is_open, is_open)
       IN  /\ _is_open' = d._is_open
           /\ is_open' = d.is_open
    /\ ops' = Append(ops, ncalls)
    /\ last_op' = "disconnect"
    /\ UNCHANGED << pkg, ctlVars, wfoVars, log, scriptVars, wait_default, dev_mode >>
    /\ UNCHANGED << connection_type, scope, ok_counter, portname, serialport_port, connection >>
    /\ UNCHANGED autoconnect
    /\ UNCHANGED << portVars, callVars, ghostVars, parseVars, methodVars >>

\* the with statement ends, after the last statement of its body or with an
\* exception on its way out: __exit__ runs, and the exception goes on
ScopeExit ==
    /\ scope = "in"
    /\ frame = "cmd"
    /\ pc = "ready" \/ pc \in Exceptions
    /\ LET d == IF connection_type = "bluetooth"
                THEN ble_disconnect(_is_open, is_open)
                ELSE disconnect(_is_open, is_open)
       IN  /\ _is_open' = d._is_open
           /\ is_open' = d.is_open
    /\ scope' = "exited"
    /\ last_op' = "disconnect"
    /\ UNCHANGED << pkg, ctlVars, wfoVars, log, scriptVars, wait_default, dev_mode >>
    /\ UNCHANGED << connection_type, ops, ok_counter, portname, serialport_port, connection >>
    /\ UNCHANGED autoconnect
    /\ UNCHANGED << portVars, callVars, ghostVars, parseVars, methodVars >>

\* the device puts its next line on the wire
DeviceEmit ==
    /\ pc \notin Exceptions
    /\ dev # << >>
    /\ rx' = rx \o Stamp(<< Head(dev) >>, arrived)
    /\ arrived' = arrived + 1
    /\ dev' = Tail(dev)
    /\ UNCHANGED << pkg, ctlVars, wfoVars, log, scriptVars, confVars, tx, dev_defect, faults, busy >>
    /\ UNCHANGED << callVars, ghostVars, parseVars, methodVars >>

\* the constructor's default for wait (mirobot) and wait_ok (wlkata_mirobot)
wait_default_of(p) == p = "mirobot"

\* the port of a serial.Serial that was given none
NO_PORT == ""
\* the reset line the constructor of WlkataMirobotSerial writes
LINE_SOFT_RESET == <<"%">>

\* what the constructor of the client, called with the port name port, has
\* made of the serial connection.  wlkata_mirobot: the constructor of
\* WlkataMirobotSerial opens the port and writes the reset line, and the
\* connect of autoconnect finds the port open.  mirobot: the constructor
\* of SerialInterface opens nothing, and the connect of autoconnect opens
\* the port and waits for the reset banner.
__init__(p, port, auto) ==
    IF p = "wlkata_mirobot"
    THEN [ is_open |-> TRUE, _is_open |-> TRUE, portname |-> port, serialport_port |-> port,
           tx |-> << LINE_SOFT_RESET >>, autoconnect |-> auto ]
    ELSE IF auto
         THEN [ is_open |-> TRUE, _is_open |-> TRUE, portname |-> port,
                serialport_port |-> port, tx |-> << >>, autoconnect |-> auto ]
         ELSE [ is_open |-> FALSE, _is_open |-> FALSE, portname |-> NO_PORT,
                serialport_port |-> NO_PORT, tx |-> << >>, autoconnect |-> auto ]

\* a connection made by autoconnect to DEFAULT_PORT, the lines written since
AutoConnected ==
    [ is_open |-> TRUE, _is_open |-> TRUE, portname |-> DEFAULT_PORT,
      serialport_port |-> DEFAULT_PORT, tx |-> << >>, autoconnect |-> TRUE ]

\* the state after construction with wait / wait_ok drawn from defaults and
\* the connection c, but for the connection type and the device
ConstructedAs(mode, defaults, c) ==
    /\ pkg \in Packages
    /\ pc = "ready"
    /\ frame = "cmd"
    /\ result = NoResult
    /\ log = << >>
    /\ WfoIdle
    /\ ScriptIdle
    /\ idle_reads = 0
    /\ is_open = c.is_open
    /\ _is_open = c._is_open
    /\ portname = c.portname
    /\ serialport_port = c.serialport_port
    /\ autoconnect = c.autoconnect
    /\ connection = TRUE
    /\ last_op = "none"
    /\ ops = << >>
    /\ ok_counter = 0
    /\ wait_default \in defaults
    /\ dev_mode = mode
    /\ rx = << >> /\ tx = c.tx /\ dev = << >> /\ busy = 0 /\ arrived = 0
    /\ faults = {}
    /\ status = Some(DefaultStatus)
    /\ cur = NoCall
    /\ sending = << >>
    /\ send_output = NoResult
    /\ ncalls = 0 /\ npolls = 0 /\ poll_n = 0
    /\ ran_wfo = FALSE /\ ran_poll = FALSE
    /\ unresolved = {} /\ got = {} /\ drain_mark = 0 /\ drained = 0
    /\ only_ack = TRUE
    /\ pending = << >>
    /\ called = NoMethod
    /\ reset_output = << >>
    /\ ParseIdle

Constructed(mode, defaults) == ConstructedAs(mode, defaults, AutoConnected)

\* the same for a client constructed without the argument wait / wait_ok
InitCommon(mode) == Constructed(mode, { wait_default_of(pkg) })

\* a serial connection to a device that sends well-formed status lines
InitSerial(mode) ==
    /\ InitCommon(mode)
    /\ connection_type = "serial"
    /\ dev_defect = NoDefect

\* the same, and the client is not the subject of a with statement
InitSession(mode) ==
    /\ InitSerial(mode)
    /\ scope = "none"

\* a device whose replies arrive at any time after the write
Init == InitSession("free")

Next ==
    \/ CallSendMsg
    \/ EmptyCache
    \/ SerialWrite
    \/ WaitForOkRead
    \/ StatusRead
    \/ DeviceEmit

Spec == Init /\ [][Next]_vars

\* a device whose replies are in the receive buffer when the write returns
InitPrompt == InitSession("prompt")

NextPrompt ==
    \/ CallSendMsg
    \/ EmptyCache
    \/ SerialWrite
    \/ WaitForOkRead
    \/ StatusRead

SpecPrompt == InitPrompt /\ [][NextPrompt]_vars

(***************************************************************************)
(* The same session on a client constructed with either value of wait /    *)
(* wait_ok (SpecWait).                                                     *)
(***************************************************************************)
InitWait ==
    /\ Constructed("prompt", BOOLEAN)
    /\ connection_type = "serial"
    /\ dev_defect = NoDefect
    /\ scope = "none"

SpecWait == InitWait /\ [][NextPrompt]_vars

(***************************************************************************)
(* A session over either transport with a device whose first status lines  *)
(* may carry a defect (SpecStatus).                                        *)
(***************************************************************************)
ConnectionTypes == { "serial", "bluetooth" }
\* the packages that accept the connection type
PackagesOf(ct) == IF ct = "bluetooth" THEN { "mirobot" } ELSE Packages

SessionDefects == { "angles_6", "no_pump", "angle_token" }
StatusDefects ==
    { NoDefect } \cup
    { [d |-> d, bad |-> <<"-">>, n |-> n] : d \in SessionDefects, n \in 1..MaxDefective }

InitStatus ==
    /\ InitCommon("prompt")
    /\ connection_type \in ConnectionTypes
    /\ pkg \in PackagesOf(connection_type)
    /\ dev_defect \in StatusDefects
    /\ scope = "none"

NextStatus ==
    \/ CallSendMsg
    \/ EmptyCache
    \/ SerialWrite
    \/ WaitForOkRead
    \/ StatusRead
    \/ BleSend

SpecStatus == InitStatus /\ [][NextStatus]_vars

(***************************************************************************)
(* A session on the serial port with a device that answers at once and may *)
(* send an error, an alarm or the reset banner unasked (SpecFault).        *)
(***************************************************************************)
InitFault == InitSession("prompt")

NextFault ==
    \/ CallSendMsg
    \/ EmptyCache
    \/ SerialWrite
    \/ WaitForOkRead
    \/ StatusRead
    \/ DeviceFault

SpecFault == InitFault /\ [][NextFault]_vars

(***************************************************************************)
(* A session on the serial port with a device that sends nothing           *)
(* (SpecSilent), and the same with a client thread that keeps running      *)
(* (SpecSilentFair): a read of wlkata_mirobot returns when its timeout has *)
(* passed, and time.sleep returns.                                         *)
(***************************************************************************)
InitSilent == InitSession("silent")

NextSilent ==
    \/ CallSendMsg
    \/ EmptyCache
    \/ SerialWrite
    \/ WaitForOkRead
    \/ StatusRead

SpecSilent == InitSilent /\ [][NextSilent]_vars

SpecSilentFair ==
    /\ SpecSilent
    /\ WF_vars(EmptyCache)
    /\ WF_vars(SerialWrite)
    /\ WF_vars(WaitForOkRead)
    /\ WF_vars(StatusRead)

(***************************************************************************)
(* The life of a connection: commands, calls of disconnect, and the end of *)
(* a with statement, on a device that may send an error unasked (SpecLife).*)
(***************************************************************************)
InitLife ==
    /\ InitSerial("prompt")
    /\ scope \in { "none", "in" }

NextLife ==
    \/ CallSendMsg
    \/ EmptyCache
    \/ SerialWrite
    \/ WaitForOkRead
    \/ StatusRead
    \/ DeviceFault
    \/ Disconnect
    \/ ScopeExit

SpecLife == InitLife /\ [][NextLife]_vars

(***************************************************************************)
(* Construction with or without autoconnect, connect on either port,       *)
(* disconnect and commands, over either transport, with port operations    *)
(* that may fail (SpecConn).                                               *)
(***************************************************************************)
\* DeviceSerial.open with the port's open succeeding (ok) or raising, called
\* by connect after it has set portname to port
open(flag, is_op, port_was, port, ok) ==
    IF flag
    THEN [ _is_open |-> flag, is_open |-> is_op, serialport_port |-> port_was,
           exc |-> "none" ]
    ELSE IF ok
         THEN [ _is_open |-> TRUE, is_open |-> TRUE, serialport_port |-> port,
                exc |-> "none" ]
         ELSE [ _is_open |-> flag, is_open |-> is_op, serialport_port |-> port,
                exc |-> "SerialDeviceOpenError" ]

\* connect(portname) of the serial interface, and connect() of the Bluetooth
\* interface.  wlkata_mirobot returns True after open; mirobot goes on to
\* wait_for_ok(reset_expected=True), and the device that the opening of
\* its port has reset sends its banner.
Connect ==
    /\ pc = "ready"
    /\ frame = "cmd"
    /\ \E arg \in { None } \cup { Some(q) : q \in PortNames }, ok \in BOOLEAN :
        LET port == IF arg = None THEN DEFAULT_PORT ELSE arg[1]
            o == open(_is_open, is_open, serialport_port, port, ok)
            e == IF o.exc # "none"
                 THEN logger_error(log, o.exc, << >>)
                 ELSE [log |-> log, exit |-> FALSE]
            opened == ~_is_open /\ o._is_open
        IN  IF connection_type = "bluetooth"
            THEN /\ is_open' = (is_open \/ ok)
                 /\ connection' = IF ok THEN TRUE ELSE connection
                 /\ last_op' = IF ok THEN "connect" ELSE last_op
                 /\ Set(IF ok THEN Here ELSE [Here EXCEPT !.pc = "BleakError"])
                 /\ UNCHANGED << _is_open, portname, serialport_port, log, rx, arrived >>
                 /\ UNCHANGED wfoVars
            ELSE /\ portname' = port
                 /\ _is_open' = o._is_open
                 /\ is_open' = o.is_open
                 /\ serialport_port' = o.serialport_port
                 /\ last_op' = IF e.exit THEN last_op ELSE "connect"
                 /\ connection' = connection
                 /\ IF e.exit
                    THEN /\ Set([Here EXCEPT !.pc = "SystemExit"])
                         /\ log' = e.log
                         /\ UNCHANGED << rx, arrived, wfoVars >>
                    ELSE IF pkg = "wlkata_mirobot"
                    THEN /\ Set([Here EXCEPT !.result = BoolResult(TRUE)])
                         /\ log' = e.log
                         /\ UNCHANGED << rx, arrived, wfoVars >>
                    ELSE /\ rx' = IF opened
                                  THEN rx \o Stamp(<< [text |-> LINE_RESET, for |-> 0] >>, arrived)
                                  ELSE rx
                         /\ arrived' = IF opened THEN arrived + 1 ELSE arrived
                         /\ log' = e.log
                         /\ wait_for_ok_enter([Here EXCEPT !.frame = "connect"], TRUE)
    /\ UNCHANGED << pkg, scriptVars, wait_default, dev_mode, connection_type, scope, ops >>
    /\ UNCHANGED << ok_counter, autoconnect, tx, dev, dev_defect, faults, busy >>
    /\ UNCHANGED << callVars, ghostVars, parseVars, methodVars >>

\* disconnect on a serial port whose close raises: DeviceSerial.close has
\* cleared the flag before, and logs the error
CloseFails ==
    /\ pc = "ready"
    /\ frame = "cmd"
    /\ connection_type = "serial"
    /\ Len(ops) < MaxCloses
    /\ _is_open
    /\ _is_open' = FALSE
    /\ ops' = Append(ops, ncalls)
    /\ last_op' = "disconnect"
    /\ LET e == logger_error(log, "SerialDeviceCloseError", << >>)
       IN  /\ log' = e.log
           /\ Set(IF e.exit THEN [Here EXCEPT !.pc = "SystemExit"] ELSE Here)
    /\ UNCHANGED << pkg, wfoVars, scriptVars, wait_default, dev_mode, is_open >>
    /\ UNCHANGED << connection_type, scope, ok_counter, portname, serialport_port, connection >>
    /\ UNCHANGED << autoconnect, portVars, callVars, ghostVars, parseVars, methodVars >>

\* DeviceSerial.send on a port whose write raises
SerialWriteFails ==
    /\ pc = "send_write"
    /\ LET e == logger_error(log, "SerialDeviceWriteError", << >>)
       IN  /\ log' = e.log
           /\ Set(IF e.exit THEN [Here EXCEPT !.pc = "SystemExit"] ELSE Here)
    /\ UNCHANGED << pkg, wfoVars, scriptVars, sessRest, parseVars, methodVars >>

\* send of the Bluetooth interface after its disconnect: the write to a
\* client that is not connected raises the error of the Bluetooth library
BleSendClosed ==
    /\ pc = "send_drain"
    /\ connection_type = "bluetooth"
    /\ ~is_open
    /\ Set([Here EXCEPT !.pc = "BleakError"])
    /\ UNCHANGED << pkg, wfoVars, log, scriptVars, sessRest, parseVars, methodVars >>

\* the caller has caught the Exception of send_msg and goes on
CatchException ==
    /\ pc = "Exception"
    /\ Set([Here EXCEPT !.pc = "ready"])
    /\ UNCHANGED << pkg, wfoVars, log, scriptVars, sessRest, parseVars, methodVars >>

InitConn ==
    /\ connection_type \in ConnectionTypes
    /\ \E auto \in BOOLEAN :
        ConstructedAs("prompt", { wait_default_of(pkg) },
                      IF connection_type = "serial"
                      THEN __init__(pkg, DEFAULT_PORT, auto)
                      ELSE AutoConnected)
    /\ pkg \in PackagesOf(connection_type)
    /\ dev_defect = NoDefect
    /\ scope = "none"

NextConn ==
    \/ CallSendMsg
    \/ EmptyCache
    \/ SerialWrite
    \/ SerialWriteFails
    \/ WaitForOkRead
    \/ StatusRead
    \/ BleSend
    \/ BleSendClosed
    \/ Connect
    \/ Disconnect
    \/ CloseFails
    \/ CatchException

SpecConn == InitConn /\ [][NextConn]_vars

(***************************************************************************)
(* The public methods that send a line of the form $N=value, on values of  *)
(* several types (SpecMethods).                                            *)
(***************************************************************************)
PyInt(n) == [type |-> "int", n |-> n, text |-> << >>]
\* the float n / 10
PyFloat(n) == [type |-> "float", n |-> n, text |-> << >>]
PyStr(t) == [type |-> "str", n |-> 0, text |-> t]
\* the float n / 1000
PyMilli(n) == [type |-> "milli", n |-> n, text |-> << >>]

Abs(n) == IF n < 0 THEN 0 - n ELSE n
Sign(n) == IF n < 0 THEN <<"-">> ELSE << >>
\* the digits after the point of a float with f thousandths: no zero at the
\* end, and one digit at least
FractionDigits(f) ==
    IF f % 100 = 0 THEN NatToDigits(f \div 100)
    ELSE IF f % 10 = 0 THEN NatToDigits(f \div 100) \o NatToDigits((f \div 10) % 10)
    ELSE NatToDigits(f \div 100) \o NatToDigits((f \div 10) % 10) \o NatToDigits(f % 10)

\* str(v), as an f-string formats v
str(v) ==
    CASE v.type = "int" -> Sign(v.n) \o NatToDigits(Abs(v.n))
      [] v.type = "float" ->
            Sign(v.n) \o NatToDigits(Abs(v.n) \div 10) \o <<".">>
                \o NatToDigits(Abs(v.n) % 10)
      [] v.type = "milli" -> Sign(v.n) \o NatToDigits(Abs(v.n) \div 1000) \o <<".">>
                                \o FractionDigits(Abs(v.n) % 1000)
      [] OTHER -> v.text

ValueSamples == { PyInt(5), PyInt(-5), PyFloat(25), PyFloat(-25), PyStr(<<"u", "p">>) }
EnableSamples == { PyInt(0), PyInt(1), PyInt(-1) }
ToolIds == 0..3
ResetLines ==
    { <<"$", "0", "=", "8", "0">>, <<"$", "1", "=", "2", ".", "5", "\n">>,
      <<"$", "H">>, <<"$", "2", "=", "-", "1">> }
ResetFiles == { << l >> : l \in ResetLines } \cup { << l1, l2 >> : l1, l2 \in ResetLines }

SendArgs(msg, var_command, wait_arg, wait_idle) ==
    [msg |-> msg, var_command |-> var_command, wait_arg |-> wait_arg, wait_idle |-> wait_idle]

\* the send_msg calls of each method, in order
set_hard_limit(enable) ==
    << SendArgs(<<"$", "2", "1", "=">> \o str(enable), TRUE, "None", FALSE) >>
set_soft_limit(enable) ==
    << SendArgs(<<"$", "2", "0", "=">> \o str(enable), TRUE, "None", FALSE) >>
set_door_lift_distance(lift_distance) ==
    << SendArgs(<<"$", "4", "9", "=">> \o str(lift_distance), FALSE, "True", TRUE) >>
set_tool_type(tool_id) ==
    << SendArgs(<<"$", "5", "0", "=">> \o str(PyInt(tool_id)), FALSE, "True", TRUE) >>
set_tool_offset(offset_x, offset_y, offset_z) ==
    << SendArgs(<<"$", "4", "6", "=">> \o str(offset_x), FALSE, "True", TRUE),
       SendArgs(<<"$", "4", "7", "=">> \o str(offset_y), FALSE, "True", TRUE),
       SendArgs(<<"$", "4", "8", "=">> \o str(offset_z), FALSE, "True", TRUE) >>
\* reset_configuration whose send_msg calls leave out var_command=True
reset_configuration_unchecked(file_lines, wait_arg) ==
    [i \in 1..Len(file_lines) |-> SendArgs(file_lines[i], FALSE, wait_arg, FALSE)]
reset_configuration(file_lines, wait_arg) ==
    [i \in 1..Len(file_lines) |-> SendArgs(file_lines[i], TRUE, wait_arg, FALSE)]

\* the calls of the methods of package p
MethodCalls(p) ==
    { set_hard_limit(e) : e \in EnableSamples }
        \cup { set_soft_limit(e) : e \in EnableSamples }
        \cup { reset_configuration(f, "None") : f \in ResetFiles }
        \cup (IF p = "wlkata_mirobot"
              THEN { set_door_lift_distance(v) : v \in ValueSamples }
                    \cup { set_tool_type(t) : t \in ToolIds }
                    \cup { set_tool_offset(x, y, z) : x, y, z \in ValueSamples }
              ELSE {})

\* the send_msg call a, and those that follow it
Sends(calls) ==
    /\ send_msg(calls[1].msg, calls[1].var_command, calls[1].wait_arg, calls[1].wait_idle)
    /\ pending' = Tail(calls)
    /\ UNCHANGED << called, reset_output >>

\* a public method is called
CallMethod ==
    /\ pc = "ready"
    /\ frame = "cmd"
    /\ pending = << >>
    /\ ncalls = 0
    /\ \E calls \in MethodCalls(pkg) : Sends(calls)

\* the method's next send_msg call, after the one before has returned
NextSend ==
    /\ pc = "ready"
    /\ frame = "cmd"
    /\ pending # << >>
    /\ Sends(pending)

InitMethods == InitSession("prompt")

NextMethods ==
    \/ CallMethod
    \/ NextSend
    \/ EmptyCache
    \/ SerialWrite
    \/ WaitForOkRead
    \/ StatusRead

SpecMethods == InitMethods /\ [][NextMethods]_vars

(***************************************************************************)
(* The public methods that check a number before they send it: set_speed,  *)
(* set_air_pump, set_valve and set_gripper (SpecActuators).                *)
(***************************************************************************)
PyBool(b) ==
    [ type |-> "bool", n |-> IF b THEN 1 ELSE 0,
      text |-> IF b THEN <<"T", "r", "u", "e">> ELSE <<"F", "a", "l", "s", "e">> ]

\* int(v) of a number: a float loses its fraction, a bool is 0 or 1
int(v) ==
    IF v.type = "float"
    THEN PyInt(IF v.n < 0 THEN 0 - (Abs(v.n) \div 10) ELSE v.n \div 10)
    ELSE PyInt(v.n)

\* v == k, for a number v and an int k
py_eq(v, k) ==
    \/ v.type \in {"int", "bool"} /\ v.n = k
    \/ v.type = "float" /\ v.n = 10 * k
\* v in values, for a list of ints
py_in(v, values) == \E i \in 1..Len(values) : py_eq(v, values[i])

AIR_PUMP_OFF_PWM_VALUE == 0
AIR_PUMP_BLOWING_PWM_VALUE == 500
AIR_PUMP_SUCTION_PWM_VALUE == 1000
VALVE_OFF_PWM_VALUE == 65
VALVE_ON_PWM_VALUE == 40
GRIPPER_OPEN_PWM_VALUE == 40
GRIPPER_CLOSE_PWM_VALUE == 60
SPEED_MAX == 3000

\* WlkataMirobot.pump_pwm_values and valve_pwm_values
pump_pwm_values ==
    << AIR_PUMP_SUCTION_PWM_VALUE, AIR_PUMP_BLOWING_PWM_VALUE, AIR_PUMP_OFF_PWM_VALUE >>
valve_pwm_values == << VALVE_OFF_PWM_VALUE, VALVE_ON_PWM_VALUE >>
\* BaseMirobot's defaults of the same: tuples of str
base_pump_pwm_values == << <<"0">>, <<"1", "0", "0", "0">> >>
base_valve_pwm_values == << <<"6", "5">>, <<"4", "0">> >>

Min2(a, b) == IF a < b THEN a ELSE b
Max2(a, b) == IF a > b THEN a ELSE b

\* what a checking method does before its send_msg calls: exc is the
\* exception it hands to logger.error / logger.exception ("none": no such
\* call), and calls are the send_msg calls it makes when that call returns
Checked(name, args, exc, text, calls) ==
    [name |-> name, args |-> args, exc |-> exc, text |-> text, calls |-> calls]

set_speed(speed) ==
    LET n == int(speed).n
        bad == n <= 0 \/ n > SPEED_MAX
    IN  Checked("set_speed", << speed >>,
                IF bad THEN "MirobotStatusError" ELSE "none", str(PyInt(n)),
                IF bad THEN << >>
                ELSE << SendArgs(<<"F">> \o str(PyInt(n)), FALSE, "None", FALSE) >>)

set_air_pump(pwm, wait_ok) ==
    LET bad == ~py_in(pwm, pump_pwm_values)
        sent == IF bad THEN PyInt(AIR_PUMP_OFF_PWM_VALUE) ELSE pwm
    IN  Checked("set_air_pump", << pwm >>,
                IF bad THEN "ValueError" ELSE "none", str(pwm),
                << SendArgs(<<"M", "3", "S">> \o str(sent), FALSE, wait_ok, TRUE) >>)

set_valve(pwm, wait_ok) ==
    LET bad == ~py_in(pwm, valve_pwm_values)
        sent == IF bad THEN PyInt(VALVE_OFF_PWM_VALUE) ELSE pwm
    IN  Checked("set_valve", << pwm >>,
                IF bad THEN "ValueError" ELSE "none", str(pwm),
                << SendArgs(<<"M", "4", "E">> \o str(sent), FALSE, wait_ok, TRUE) >>)

\* BaseMirobot.set_air_pump and set_valve: a bool picks one of the configured
\* values, and a value that is not configured is sent as it is when
\* logger.exception returns
BaseMirobot_set_air_pump(pwm, wait) ==
    LET v == IF pwm.type = "bool"
             THEN PyStr(base_pump_pwm_values[IF pwm.n = 1 THEN 1 ELSE 2])
             ELSE pwm
        bad == \A i \in 1..Len(base_pump_pwm_values) : base_pump_pwm_values[i] # str(v)
    IN  Checked("set_air_pump", << pwm >>,
                IF bad THEN "ValueError" ELSE "none", str(v),
                << SendArgs(<<"M", "3", "S">> \o str(v), FALSE, wait, TRUE) >>)

BaseMirobot_set_valve(pwm, wait) ==
    LET v == IF pwm.type = "bool"
             THEN PyStr(base_valve_pwm_values[IF pwm.n = 1 THEN 1 ELSE 2])
             ELSE pwm
        bad == \A i \in 1..Len(base_valve_pwm_values) : base_valve_pwm_values[i] # str(v)
    IN  Checked("set_valve", << pwm >>,
                IF bad THEN "ValueError" ELSE "none", str(v),
                << SendArgs(<<"M", "4", "E">> \o str(v), FALSE, wait, TRUE) >>)

\* set_gripper, whose clamp is max(lowerb, min(upperb, pwm))
set_gripper_unclamped(pwm, wait_ok) ==
    LET v == IF pwm.type = "bool"
             THEN (IF pwm.n = 1 THEN GRIPPER_CLOSE_PWM_VALUE ELSE GRIPPER_OPEN_PWM_VALUE)
             ELSE int(pwm).n
    IN  Checked("set_gripper", << pwm >>, "none", << >>,
                << SendArgs(<<"M", "3", "S">> \o str(PyInt(v)), FALSE, wait_ok, TRUE) >>)
set_gripper(pwm, wait_ok) ==
    LET v == IF pwm.type = "bool"
             THEN (IF pwm.n = 1 THEN GRIPPER_CLOSE_PWM_VALUE ELSE GRIPPER_OPEN_PWM_VALUE)
             ELSE int(pwm).n
        lowerb == Min2(GRIPPER_OPEN_PWM_VALUE, GRIPPER_CLOSE_PWM_VALUE)
        upperb == Max2(GRIPPER_OPEN_PWM_VALUE, GRIPPER_CLOSE_PWM_VALUE)
        clamped == Max2(lowerb, Min2(upperb, v))
    IN  Checked("set_gripper", << pwm >>, "none", << >>,
                << SendArgs(<<"M", "3", "S">> \o str(PyInt(clamped)), FALSE, wait_ok, TRUE) >>)

PwmSamples ==
    { PyInt(n) : n \in { -1, 0, 1, 39, 40, 41, 50, 59, 60, 61, 65, 500, 999, 1000 } }
        \cup { PyBool(TRUE), PyBool(FALSE), PyFloat(5000), PyFloat(455) }
SpeedSamples ==
    { PyInt(n) : n \in { -5, 0, 1, 2000, 3000, 3001 } }
        \cup { PyBool(TRUE), PyFloat(5), PyFloat(20005) }
ActuatorWaits == { "None", "False" }

\* the calls of the checking methods of package p
CheckedCalls(p) ==
    IF p = "wlkata_mirobot"
    THEN { set_speed(v) : v \in SpeedSamples }
            \cup { set_air_pump(v, w) : v \in PwmSamples, w \in ActuatorWaits }
            \cup { set_valve(v, w) : v \in PwmSamples, w \in ActuatorWaits }
            \cup { set_gripper(v, w) : v \in PwmSamples, w \in ActuatorWaits }
    ELSE { BaseMirobot_set_air_pump(v, w) : v \in PwmSamples, w \in ActuatorWaits }
            \cup { BaseMirobot_set_valve(v, w) : v \in PwmSamples, w \in ActuatorWaits }

\* a checking method is called and runs up to its first send_msg call: when
\* its logger call raises SystemExit, nothing of the method runs after it
CallChecked ==
    /\ pc = "ready"
    /\ frame = "cmd"
    /\ pending = << >>
    /\ ncalls = 0
    /\ called = NoMethod
    /\ \E m \in CheckedCalls(pkg) :
        LET e == IF m.exc # "none"
                 THEN logger_error(log, m.exc, m.text)
                 ELSE [log |-> log, exit |-> FALSE]
        IN  /\ called' = [name |-> m.name, args |-> m.args]
            /\ log' = e.log
            /\ pending' = IF e.exit THEN << >> ELSE m.calls
            /\ reset_output' = reset_output
            /\ Set(IF e.exit THEN [Here EXCEPT !.pc = "SystemExit"]
                   ELSE IF m.calls = << >>
                        THEN [Here EXCEPT !.result = BoolResult(FALSE)]
                        ELSE Here)
    /\ UNCHANGED << pkg, wfoVars, scriptVars, sessRest, parseVars >>

InitActuators == InitSession("prompt")

NextActuators ==
    \/ CallChecked
    \/ NextSend
    \/ EmptyCache
    \/ SerialWrite
    \/ WaitForOkRead
    \/ StatusRead
    \/ DeviceFault

SpecActuators == InitActuators /\ [][NextActuators]_vars

(***************************************************************************)
(* The line reader on the bytes of the port: DeviceSerial.readline of      *)
(* wlkata_mirobot and SerialDevice.listen_to_device of mirobot             *)
(* (SpecReader).  The device sends bytes at any time; the clock passes the *)
(* timeout at any time after the call.  serialport.readline returns the    *)
(* bytes up to a line feed; without one it waits when the port has no read *)
(* timeout (mirobot) and returns what there is when the port's timeout is  *)
(* 0 (wlkata_mirobot).                                                     *)
(***************************************************************************)
MaxBytes == 4
LF == "\n"
WireBytes == { "k", LF }

\* the place of the first line feed in bytes b (0: there is none)
FirstLF(b) ==
    IF \E i \in 1..Len(b) : b[i] = LF
    THEN CHOOSE i \in 1..Len(b) : b[i] = LF /\ \A j \in 1..(i - 1) : b[j] # LF
    ELSE 0

\* serialport.readline() on a port whose read does not wait: the bytes up to
\* and including the first line feed, or all there are
serialport_readline(b) ==
    IF FirstLF(b) > 0 THEN SubSeq(b, 1, FirstLF(b)) ELSE b

\* the device sends one byte
DeviceByte ==
    /\ Len(rd_all) < MaxBytes
    /\ \E b \in WireBytes :
        /\ in_buf' = Append(in_buf, b)
        /\ rd_all' = Append(rd_all, b)
    /\ UNCHANGED << msg_recv, rd_pc, timed_out, rd_ret >>
    /\ UNCHANGED << pkg, ctlVars, wfoVars, log, scriptVars, sessRest >>
    /\ UNCHANGED << p_line, p_snap, p_out, methodVars >>

\* readline(timeout) / listen_to_device(timeout) is called
CallReadline ==
    /\ rd_pc = "idle"
    /\ rd_pc' = "loop"
    /\ msg_recv' = << >>
    /\ timed_out' = FALSE
    /\ UNCHANGED << in_buf, rd_all, rd_ret >>
    /\ UNCHANGED << pkg, ctlVars, wfoVars, log, scriptVars, sessRest >>
    /\ UNCHANGED << p_line, p_snap, p_out, methodVars >>

\* timeout seconds have passed since the call
Tick ==
    /\ rd_pc \in { "loop", "read" }
    /\ ~timed_out
    /\ timed_out' = TRUE
    /\ UNCHANGED << in_buf, rd_all, msg_recv, rd_pc, rd_ret >>
    /\ UNCHANGED << pkg, ctlVars, wfoVars, log, scriptVars, sessRest >>
    /\ UNCHANGED << p_line, p_snap, p_out, methodVars >>

\* the value returned when the timeout has passed
readline_at_timeout(p, acc) ==
    IF p = "wlkata_mirobot" THEN StrVal(Strip(acc)) ELSE listen_to_device_timeout

\* the while test and the test of the timeout
ReadlineLoop ==
    /\ rd_pc = "loop"
    /\ IF ~_is_open
       THEN /\ rd_pc' = "done"
            /\ rd_ret' = << [kind |-> "None", text |-> << >>] >>
       ELSE IF timed_out
       THEN /\ rd_pc' = "done"
            /\ rd_ret' = << readline_at_timeout(pkg, msg_recv) >>
       ELSE /\ rd_pc' = "read"
            /\ rd_ret' = rd_ret
    /\ UNCHANGED << in_buf, rd_all, msg_recv, timed_out >>
    /\ UNCHANGED << pkg, ctlVars, wfoVars, log, scriptVars, sessRest >>
    /\ UNCHANGED << p_line, p_snap, p_out, methodVars >>

\* serialport.readline() and what the loop does with its result
SerialportReadline ==
    /\ rd_pc = "read"
    /\ IF pkg = "wlkata_mirobot"
       THEN LET msg_seg == serialport_readline(in_buf)
            IN  /\ in_buf' = SubSeq(in_buf, Len(msg_seg) + 1, Len(in_buf))
                /\ msg_recv' = msg_recv \o msg_seg
                /\ rd_pc' = "loop"
                /\ rd_ret' = rd_ret
       ELSE \* the port has no read timeout: the read returns at a line feed
            /\ FirstLF(in_buf) > 0
            /\ LET msg == SubSeq(in_buf, 1, FirstLF(in_buf))
               IN  /\ in_buf' = SubSeq(in_buf, Len(msg) + 1, Len(in_buf))
                   /\ rd_ret' = << StrVal(Strip(msg)) >>
                   /\ rd_pc' = "done"
                   /\ msg_recv' = msg_recv
    /\ UNCHANGED << rd_all, timed_out >>
    /\ UNCHANGED << pkg, ctlVars, wfoVars, log, scriptVars, sessRest >>
    /\ UNCHANGED << p_line, p_snap, p_out, methodVars >>

InitReader == InitSession("free")

NextReader ==
    \/ DeviceByte
    \/ CallReadline
    \/ Tick
    \/ ReadlineLoop
    \/ SerialportReadline

SpecReader == InitReader /\ [][NextReader]_vars

\* time passes, and the reader runs when it can
SpecReaderFair ==
    /\ SpecReader
    /\ WF_vars(Tick)
    /\ WF_vars(ReadlineLoop)
    /\ WF_vars(SerialportReadline)

(***************************************************************************)
(* wait_until_idle of wlkata_mirobot against a device that answers every   *)
(* query, each reply reaching the receive buffer at any time after the     *)
(* query was written and before the next one is (SpecPoll).  The lines     *)
(* written and the queries made are not recorded, so that a wait that does *)
(* not end is a cycle of states.  SpecPollFair: every step of the client   *)
(* is taken in the end (a read returns when its timeout has passed,        *)
(* time.sleep returns), and every reply arrives.                           *)
(***************************************************************************)
\* wait_until_idle is called while the arm has busy status replies to go
\* before it reports Idle
CallWaitUntilIdle ==
    /\ pc = "ready"
    /\ frame = "cmd"
    /\ ~ran_poll
    /\ \E n \in 0..MaxBusy : busy' = n
    /\ Set(wait_until_idle(Here))
    /\ UNCHANGED << pkg, wfoVars, log, scriptVars, confVars, rx, tx, dev, dev_defect, faults >>
    /\ UNCHANGED << arrived, callVars, ghostVars, parseVars, methodVars >>

\* send('?'): cache_msg = self.empty_cache()
PollEmptyCache ==
    /\ pc = "send_drain"
    /\ frame = "query"
    /\ rx' = empty_cache(rx)
    /\ Set([Here EXCEPT !.pc = "send_write"])
    /\ UNCHANGED << pkg, wfoVars, log, scriptVars, confVars, tx, dev, dev_defect, faults, busy >>
    /\ UNCHANGED << arrived, callVars, ghostVars, parseVars, methodVars >>

\* send('?'): the write, to which the device will reply with its status and
\* "ok"; send returns to send_cmd_get_status
PollWrite ==
    /\ pc = "send_write"
    /\ frame = "query"
    /\ dev = << >>
    /\ dev' = DeviceReplies(sending, 0, busy)
    /\ busy' = IF busy > 0 THEN busy - 1 ELSE 0
    /\ Set([Here EXCEPT !.pc = "poll_read"])
    /\ UNCHANGED << pkg, wfoVars, log, scriptVars, confVars, rx, tx, dev_defect, faults >>
    /\ UNCHANGED << arrived, callVars, ghostVars, parseVars, methodVars >>

\* a line of a reply reaches the receive buffer
PollArrive ==
    /\ dev # << >>
    /\ rx' = rx \o Stamp(<< Head(dev) >>, 0)
    /\ dev' = Tail(dev)
    /\ UNCHANGED << pkg, ctlVars, wfoVars, log, scriptVars, confVars, tx, dev_defect, faults >>
    /\ UNCHANGED << busy, arrived, callVars, ghostVars, parseVars, methodVars >>

\* readline(timeout=0.10) of send_cmd_get_status returns what has arrived,
\* the rest of get_status, time.sleep, and wait_until_idle's test
PollRead ==
    /\ pc = "poll_read"
    /\ frame = "query"
    /\ LET msg_seg == readline(rx).text
           r == IF Contains(LIT_OPEN, msg_seg) /\ Contains(LIT_CLOSE, msg_seg)
                THEN _parse_status(pkg, msg_seg, log)
                ELSE [ret |-> FALSE, status |-> None, exc |-> "none", log |-> log]
       IN  /\ rx' = << >>
           /\ log' = r.log
           /\ Set(IF r.exc # "none"
                  THEN [Here EXCEPT !.pc = r.exc]
                  ELSE get_status_end(Here, r.status))
    /\ UNCHANGED << pkg, wfoVars, scriptVars, confVars, tx, dev, dev_defect, faults, busy >>
    /\ UNCHANGED << arrived, callVars, ghostVars, parseVars, methodVars >>

InitPoll ==
    /\ InitSession("free")
    /\ pkg = "wlkata_mirobot"

NextPoll ==
    \/ CallWaitUntilIdle
    \/ PollEmptyCache
    \/ PollWrite
    \/ PollArrive
    \/ PollRead

SpecPoll == InitPoll /\ [][NextPoll]_vars

\* PollRead is enabled exactly when pc = "poll_read" and every step of it
\* changes pc, so that its weak fairness is the last conjunct
SpecPollFair ==
    /\ SpecPoll
    /\ WF_vars(PollEmptyCache)
    /\ WF_vars(PollWrite)
    /\ WF_vars(PollArrive)
    /\ []<>(pc # "poll_read")

(***************************************************************************)
(* reset_configuration on a reset source given as its lines, with the dict *)
(* it returns (SpecReset).                                                 *)
(***************************************************************************)
MaxResetLines == 3
ResetSources ==
    UNION { [1..n -> ResetLines] : n \in 1..MaxResetLines }

\* d[key] = value on a dict given as the sequence of its items
dict_set(d, key, value) ==
    IF \E i \in 1..Len(d) : d[i].key = key
    THEN [i \in 1..Len(d) |-> IF d[i].key = key THEN [key |-> key, value |-> value] ELSE d[i]]
    ELSE Append(d, [key |-> key, value |-> value])

\* the line of the source whose send_msg call was made last
LineSent == called.args[Len(called.args) - Len(pending)]

DictResult == [kind |-> "dict", lines |-> << >>, ok |-> TRUE]

\* reset_configuration is called: output = {}, and the first pass of the
\* loop of send_each_line up to its send_msg call
CallResetConfiguration ==
    /\ pc = "ready"
    /\ frame = "cmd"
    /\ called = NoMethod
    /\ ncalls = 0
    /\ \E file_lines \in ResetSources, wait_arg \in WaitArgs :
        LET calls == reset_configuration(file_lines, wait_arg)
        IN  /\ send_msg(calls[1].msg, calls[1].var_command, calls[1].wait_arg,
                        calls[1].wait_idle)
            /\ pending' = Tail(calls)
            /\ called' = [name |-> "reset_configuration", args |-> file_lines]
            /\ reset_output' = << >>

\* send_each_line: send_msg has returned, output[line] is assigned, and the
\* next pass makes its send_msg call
SendEachLine ==
    /\ pc = "ready"
    /\ frame = "cmd"
    /\ called.name = "reset_configuration"
    /\ pending # << >>
    /\ send_msg(pending[1].msg, pending[1].var_command, pending[1].wait_arg,
                pending[1].wait_idle)
    /\ pending' = Tail(pending)
    /\ reset_output' = dict_set(reset_output, LineSent, result)
    /\ UNCHANGED called

\* the last send_msg has returned: output[line] is assigned, the loop ends
\* and reset_configuration returns output
ResetConfigurationReturn ==
    /\ pc = "ready"
    /\ frame = "cmd"
    /\ called.name = "reset_configuration"
    /\ pending = << >>
    /\ result # DictResult
    /\ reset_output' = dict_set(reset_output, LineSent, result)
    /\ Set([Here EXCEPT !.result = DictResult])
    /\ UNCHANGED << pkg, wfoVars, log, scriptVars, sessRest, parseVars, pending, called >>

InitReset == InitSession("prompt")

NextReset ==
    \/ CallResetConfiguration
    \/ SendEachLine
    \/ ResetConfigurationReturn
    \/ EmptyCache
    \/ SerialWrite
    \/ WaitForOkRead

SpecReset == InitReset /\ [][NextReset]_vars

(***************************************************************************)
(* generate_args_string on an instruction and a dict of pairings, given as *)
(* the sequence of its items in insertion order (SpecArgs).                *)
(***************************************************************************)
\* round(value, 2) of a float, for a value that is no tie
round2(v) ==
    IF v.type = "milli"
    THEN LET h == (Abs(v.n) + 5) \div 10
         IN  PyMilli(IF v.n < 0 THEN 0 - (10 * h) ELSE 10 * h)
    ELSE v

\* format_float_value: None and values that are no float are left as they are
format_float_value(value) ==
    IF value = None THEN value
    ELSE IF value[1].type \in {"float", "milli"} THEN Some(round2(value[1]))
    ELSE value

RECURSIVE JoinWith(_, _)
\* sep.join(parts)
JoinWith(sep, parts) ==
    IF Len(parts) = 0 THEN << >>
    ELSE IF Len(parts) = 1 THEN parts[1]
    ELSE parts[1] \o sep \o JoinWith(sep, Tail(parts))

\* generate_args_string with the test `if value` in place of
\* `if value is not None`
generate_args_string_truthy(p, instruction, pairings) ==
    LET kept == SelectSeq(pairings, LAMBDA kv : kv.value # None /\ kv.value[1].n # 0)
        shown(v) == IF p = "wlkata_mirobot" THEN format_float_value(v) ELSE v
        args == [i \in 1..Len(kept) |-> kept[i].key \o str(shown(kept[i].value)[1])]
    IN  JoinWith(<<" ">>, << instruction >> \o args)
\* WlkataMirobot.generate_args_string and BaseMirobot._generate_args_string
generate_args_string(p, instruction, pairings) ==
    LET kept == SelectSeq(pairings, LAMBDA kv : kv.value # None)
        shown(v) == IF p = "wlkata_mirobot" THEN format_float_value(v) ELSE v
        args == [i \in 1..Len(kept) |-> kept[i].key \o str(shown(kept[i].value)[1])]
    IN  JoinWith(<<" ">>, << instruction >> \o args)

ArgKeys == << <<"X">>, <<"Y">>, <<"F">> >>
ArgValues ==
    { None, Some(PyInt(0)), Some(PyInt(2000)), Some(PyFloat(10)), Some(PyFloat(0)),
      Some(PyMilli(1234)), Some(PyMilli(-1239)) }
Instructions ==
    { <<"M", "2", "1", " ", "G", "9", "0">>, <<"M", "2", "0", " ", "G", "9", "1", " ", "G", "0", "2">> }
\* the dicts with the first n keys of ArgKeys
Pairings ==
    UNION { { [i \in 1..n |-> [key |-> ArgKeys[i], value |-> vs[i]]] : vs \in [1..n -> ArgValues] } :
            n \in 0..Len(ArgKeys) }

GenerateArgsString ==
    /\ pc = "ready"
    /\ frame = "args"
    /\ p_out' = Some(generate_args_string(pkg, p_snap[1], p_snap[2]))
    /\ pc' = "returned"
    /\ UNCHANGED << pkg, frame, result, status, sending, send_output, npolls, ran_wfo, ran_poll >>
    /\ UNCHANGED << wfoVars, log, scriptVars, sessRest, p_line, p_snap, readerVars, methodVars >>

InitArgs ==
    /\ pkg \in Packages
    /\ pc = "ready"
    /\ frame = "args"
    /\ log = << >>
    /\ result = NoResult
    /\ WfoIdle
    /\ ScriptIdle
    /\ idle_reads = 0
    /\ SessIdle
    /\ \E instruction \in Instructions, pairings \in Pairings :
        p_snap = << instruction, pairings >>
    /\ p_line = << >>
    /\ p_out = None
    /\ ReaderIdle

NextArgs == GenerateArgsString

SpecArgs == InitArgs /\ [][NextArgs]_vars

(***************************************************************************)
(* The bytes send_msg(msg, terminator=t) writes, for every short msg, the  *)
(* terminators callers pass and either value of os.linesep (SpecTerm).     *)
(***************************************************************************)
MaxMsgLen == 3
LINESEP_POSIX == << LF >>
CRLF == <<"\r", "\n">>
\* os.linesep: "\n" on POSIX, "\r\n" on Windows
LineSeps == { LINESEP_POSIX, CRLF }
\* the terminators callers pass: os.linesep by default, '\r\n' from the rover
Terminators == { LINESEP_POSIX, CRLF }
TermAlphabet == { "W", "0", " ", "\n", "\r" }
TermMsgs == UNION { [1..n -> TermAlphabet] : n \in 0..MaxMsgLen }

\* SerialDevice.send: what serialport.write is given
device_send(message, terminator) ==
    IF EndsWith(message, terminator) THEN message ELSE message \o terminator

\* BluetoothLowEnergyInterface.send: bytes(msg + '\r\n'), whatever terminator is
ble_send(msg, terminator) == msg \o CRLF

\* SerialInterface.send hands its terminator on to the serial device
interface_send(ct, msg, terminator) ==
    IF ct = "bluetooth" THEN ble_send(msg, terminator) ELSE device_send(msg, terminator)

\* what send_msg(msg, terminator=terminator) writes on a platform whose
\* os.linesep is linesep: the device's send is called with
\* terminator=os.linesep
send_msg_bytes(ct, msg, terminator, linesep) ==
    interface_send(ct, Strip(msg), linesep)

SendMsgBytes ==
    /\ pc = "ready"
    /\ frame = "term"
    /\ p_out' = Some(send_msg_bytes(p_snap[1], p_snap[2], p_snap[3], p_snap[4]))
    /\ pc' = "returned"
    /\ UNCHANGED << pkg, frame, result, status, sending, send_output, npolls, ran_wfo, ran_poll >>
    /\ UNCHANGED << wfoVars, log, scriptVars, sessRest, p_line, p_snap, readerVars, methodVars >>

InitTerm ==
    /\ \E ct \in ConnectionTypes :
        /\ pkg \in PackagesOf(ct)
        /\ \E msg \in TermMsgs, terminator \in Terminators, linesep \in LineSeps :
            p_snap = << ct, msg, terminator, linesep >>
    /\ pc = "ready"
    /\ frame = "term"
    /\ log = << >>
    /\ result = NoResult
    /\ WfoIdle
    /\ ScriptIdle
    /\ idle_reads = 0
    /\ SessIdle
    /\ p_line = << >>
    /\ p_out = None
    /\ ReaderIdle

NextTerm == SendMsgBytes

SpecTerm == InitTerm /\ [][NextTerm]_vars

(***************************************************************************)
(* set_tool_pose and set_wrist_pose: the motion command handed to send_msg *)
(* for every mode, a few coordinates, angles and speeds (SpecPose).        *)
(***************************************************************************)
default_speed == 2000
INSTR_P2P == <<"M", "2", "0", " ", "G", "9", "0", " ", "G", "0">>
INSTR_P2P_REL == <<"M", "2", "0", " ", "G", "9", "1", " ", "G", "0">>
INSTR_LIN == <<"M", "2", "0", " ", "G", "9", "0", " ", "G", "1">>
INSTR_LIN_REL == <<"M", "2", "0", " ", "G", "9", "1", " ", "G", "1">>

\* the speed of a motion command: `if not speed: speed = self.default_speed`,
\* then int(speed) of an int
speed_of(speed) ==
    IF speed = None \/ speed[1].n = 0 THEN Some(PyInt(default_speed)) ELSE speed

\* the pairings of a cartesian motion command
cartesian_pairings(x, y, z, a, b, c, speed) ==
    << [key |-> <<"X">>, value |-> x], [key |-> <<"Y">>, value |-> y],
       [key |-> <<"Z">>, value |-> z], [key |-> <<"A">>, value |-> a],
       [key |-> <<"B">>, value |-> b], [key |-> <<"C">>, value |-> c],
       [key |-> <<"F">>, value |-> speed_of(speed)] >>

\* p2p_interpolation (wlkata_mirobot), go_to_cartesian_ptp (mirobot): the msg
\* given to send_msg
p2p_interpolation(p, x, y, z, a, b, c, speed, is_relative) ==
    generate_args_string(p, IF is_relative THEN INSTR_P2P_REL ELSE INSTR_P2P,
                         cartesian_pairings(x, y, z, a, b, c, speed))

\* linear_interpolation (wlkata_mirobot), go_to_cartesian_lin (mirobot)
linear_interpolation(p, x, y, z, a, b, c, speed, is_relative) ==
    generate_args_string(p, IF is_relative THEN INSTR_LIN_REL ELSE INSTR_LIN,
                         cartesian_pairings(x, y, z, a, b, c, speed))

\* WlkataMirobot.set_tool_pose and Mirobot.set_wrist_pose (which has no
\* is_relative): the msg given to send_msg
set_tool_pose(p, x, y, z, roll, pitch, yaw, mode, speed, is_relative) ==
    LET rel == p = "wlkata_mirobot" /\ is_relative
    IN  IF mode = "p2p"
        THEN p2p_interpolation(p, x, y, z, yaw, pitch, yaw, speed, rel)
        ELSE IF mode = "linear"
        THEN linear_interpolation(p, x, y, z, yaw, pitch, yaw, speed, rel)
        ELSE p2p_interpolation(p, x, y, z, yaw, pitch, yaw, speed, FALSE)

PoseCoords == { None, Some(PyFloat(2000)) }
PoseAngles == { Some(PyFloat(0)), Some(PyFloat(105)), Some(PyMilli(-1239)) }
PoseModes == { "p2p", "linear", "circle" }
PoseSpeeds == { None, Some(PyInt(1500)) }

SetToolPose ==
    /\ pc = "ready"
    /\ frame = "pose"
    /\ p_out' = Some(Strip(set_tool_pose(pkg, p_snap[1], p_snap[2], p_snap[3], p_snap[4],
                                          p_snap[5], p_snap[6], p_snap[7], p_snap[8],
                                          p_snap[9])))
    /\ pc' = "returned"
    /\ UNCHANGED << pkg, frame, result, status, sending, send_output, npolls, ran_wfo, ran_poll >>
    /\ UNCHANGED << wfoVars, log, scriptVars, sessRest, p_line, p_snap, readerVars, methodVars >>

InitPose ==
    /\ pkg \in Packages
    /\ \E x \in PoseCoords, y \in PoseCoords, z \in PoseCoords,
          roll \in PoseAngles, pitch \in PoseAngles, yaw \in PoseAngles,
          mode \in PoseModes, speed \in PoseSpeeds, is_relative \in BOOLEAN :
            /\ (pkg = "mirobot" => ~is_relative)
            /\ p_snap = << x, y, z, roll, pitch, yaw, mode, speed, is_relative >>
    /\ pc = "ready"
    /\ frame = "pose"
    /\ log = << >>
    /\ result = NoResult
    /\ WfoIdle
    /\ ScriptIdle
    /\ idle_reads = 0
    /\ SessIdle
    /\ p_line = << >>
    /\ p_out = None
    /\ ReaderIdle

NextPose == SetToolPose

SpecPose == InitPose /\ [][NextPose]_vars

(***************************************************************************)
(* send_msg(msg, var_command=True) on every short msg over an alphabet     *)
(* that holds the pattern's characters, a letter and a blank (SpecVar).    *)
(***************************************************************************)
VarAlphabet == { "$", "2", "=", ".", "t", " " }
VarMsgs == UNION { [1..n -> VarAlphabet] : n \in 0..MaxVarLen }

CallSendVar ==
    /\ pc = "ready"
    /\ frame = "cmd"
    /\ ncalls = 0
    /\ \E msg \in VarMsgs : send_msg(msg, TRUE, "False", FALSE)
    /\ UNCHANGED methodVars

InitVar == InitSession("free")

NextVar ==
    \/ CallSendVar
    \/ EmptyCache
    \/ SerialWrite

SpecVar == InitVar /\ [][NextVar]_vars

(***************************************************************************)
(* Properties of send_msg on variable commands (SpecVar).                  *)
(***************************************************************************)
\* s is a dollar, one digit or more, an equals sign, and one or more digits
\* and points, and nothing else
C7_Matches(s) ==
    \E q \in 1..Len(s) :
        /\ s[q] = "="
        /\ q >= 3
        /\ q < Len(s)
        /\ s[1] = "$"
        /\ \A i \in 2..(q - 1) : s[i] \in Digits
        /\ \A i \in (q + 1)..Len(s) : s[i] \in Digits \cup {"."}

C7_Rejected ==
    /\ pc = "SystemExit"
    /\ tx = << >>
    /\ log # << >>
    /\ Last(log).exc = "MirobotVariableCommandError"

\* C7 as claimed: send_msg(msg, var_command=True) with a msg that does not
\* fully match the pattern is rejected and nothing is written.
C7_Original ==
    (ncalls >= 1 /\ cur.var_command /\ ~C7_Matches(cur.msg)) => C7_Rejected

\* C7 amended: send_msg(msg, var_command=True) with a msg that, once its
\* leading and trailing whitespace is stripped, does not fully match the
\* pattern is rejected (logged at ERROR level, SystemExit) and nothing is
\* written.
C7_Amended ==
    (ncalls >= 1 /\ cur.var_command /\ ~C7_Matches(Strip(cur.msg))) => C7_Rejected

C7_Witness ==
    /\ ncalls = 1
    /\ cur.var_command
    /\ cur.msg = <<"$", "2", "=", "t">>
    /\ C7_Rejected

(***************************************************************************)
(* Properties of the idle poller on a prompt device (SpecPrompt).          *)
(***************************************************************************)
IdleNow == status # None /\ status[1].state = STATE_IDLE

\* C2: with a device that answers every query at once, poll_n replies that
\* are not Idle and then an Idle one, the running wait_until_idle never
\* writes more than poll_n + 1 queries, does not fail, and when send has
\* returned exactly poll_n + 1 queries were written and the committed status
\* is Idle.
C2_Polls ==
    ran_poll =>
        /\ pc \notin Exceptions
        /\ npolls <= poll_n + 1
        /\ pc = "ready" => (npolls = poll_n + 1 /\ IdleNow)

C2_Witness ==
    /\ ran_poll
    /\ pc = "ready"
    /\ poll_n = 2
    /\ npolls = 3
    /\ IdleNow
    /\ Len(tx) = 4

(***************************************************************************)
(* Properties of a session (Spec).                                         *)
(***************************************************************************)
\* the last call of send_msg has returned
Returned == ncalls >= 1 /\ pc = "ready"

\* C3 as claimed: never two lines in flight, whatever the calls.
C3_Original == Cardinality(unresolved) <= 1

\* C3 amended: as long as every call waited for the acknowledgement and not
\* for idle, a line is written only when every earlier line is resolved.
C3_Amended == only_ack => Cardinality(unresolved) <= 1

C3_Witness ==
    /\ only_ack
    /\ ncalls = 2
    /\ Len(tx) = 2
    /\ pc = "ready"
    /\ unresolved = {}

\* C4 as claimed: no line collected by the running send answers a line
\* written before the one it sent.
C4_Original == \A g \in got : g.for >= Len(tx)

\* C4 amended: no line collected by the running send had arrived when the
\* send drained the receive buffer.
C4_Amended == \A g \in got : g.lid > drain_mark

C4_Witness ==
    /\ Returned
    /\ drained >= 1
    /\ got # {}
    /\ \A g \in got : g.lid > drain_mark

C8_OneMode ==
    IF cur.wait_idle
    THEN ran_poll /\ ~ran_wfo /\ IdleNow
    ELSE IF cur.wait
         THEN ran_wfo /\ ~ran_poll /\ result.kind = "list"
         ELSE ~ran_wfo /\ ~ran_poll /\ got = {} /\ result = BoolResult(TRUE)

\* C8 as claimed: a send that has returned ran exactly one wait mode, the
\* poller if wait_idle is set, else the matcher if wait is set, else none.
C8_Original == Returned => C8_OneMode

\* C8 amended: in mirobot a send that has returned ran exactly one wait
\* mode; in wlkata_mirobot it ran the matcher if and only if wait_ok was set
\* and the poller if and only if wait_idle was set, and it returned the
\* matcher's lines if wait_ok was set and the write's result otherwise.
C8_Amended ==
    Returned =>
        IF pkg = "mirobot"
        THEN C8_OneMode
        ELSE /\ ran_wfo = cur.wait
             /\ ran_poll = cur.wait_idle
             /\ cur.wait_idle => IdleNow
             /\ result.kind = (IF cur.wait THEN "list" ELSE "bool")
             /\ (~cur.wait /\ ~cur.wait_idle) => (got = {} /\ result = BoolResult(TRUE))

C8_Witness ==
    /\ Returned
    /\ pkg = "wlkata_mirobot"
    /\ cur.wait /\ cur.wait_idle
    /\ ran_wfo /\ ran_poll
    /\ IdleNow
    /\ result.kind = "list"

\* C9 as claimed: a call that asked to wait returns the list of lines, a call
\* that asked not to wait returns the boolean.
C9_Original ==
    Returned =>
        /\ cur.wait_arg = "True" => result.kind = "list"
        /\ cur.wait_arg = "False" => result.kind = "bool"

(***************************************************************************)
(* The status parser on lines that are not well formed (SpecParseBad): a   *)
(* line built from field values with one defect.                           *)
(***************************************************************************)
InitParseBad ==
    /\ pkg \in Packages
    /\ pc = "ready"
    /\ frame = "parse"
    /\ log = << >>
    /\ result = NoResult
    /\ WfoIdle
    /\ ScriptIdle
    /\ idle_reads = 0
    /\ SessIdle
    /\ \E f \in BadFieldValues, d \in Defects, bad \in BadTokens :
        /\ p_snap = << f, d, bad >>
        /\ p_line = DefectLine(f, d, bad)
    /\ p_out = None
    /\ ReaderIdle

SpecParseBad == InitParseBad /\ [][NextParse]_vars

(***************************************************************************)
(* Properties of the status parser on defective lines (SpecParseBad).      *)
(***************************************************************************)
ParseFailed == p_out # None /\ ~p_out[1].ret /\ p_out[1].status = None

\* C11 as claimed: a line whose angle group does not hold seven values, or
\* whose cartesian group does not hold six, or with a token that is no
\* number, or without the pattern, is rejected: failure and no snapshot.
C11_Original == pc # "ready" => ParseFailed

\* what the code rejects: a cartesian group of more than six values, a token
\* that is no number among the first seven angles or among the cartesians
\* (an empty group is one empty token), and a line without the pattern
C11_CodeRejects ==
    (pc # "ready" /\ p_snap[2] \notin {"angles_6", "angles_8", "cartesians_5", "angle_token_8"})
        => ParseFailed

\* what the code accepts: fewer than seven angles or fewer than six
\* cartesians (the fields without a token stay None), and any tokens after
\* the seventh angle (dropped unread)
C11_CodeAccepts ==
    (pc # "ready" /\ p_snap[2] \in {"angles_6", "angles_8", "cartesians_5", "angle_token_8"})
        => (pc = "returned" /\ p_out[1].ret /\ p_out[1].status # None)

(***************************************************************************)
(* Properties of the committed status (SpecStatus).                        *)
(***************************************************************************)
\* a snapshot with a value in every field
Complete(st) ==
    /\ \A k \in DOMAIN st.angle : st.angle[k] # None
    /\ \A k \in DOMAIN st.cartesian : st.cartesian[k] # None
    /\ st.pump_pwm # None
    /\ st.valve_pwm # None

\* C12: the status is always one snapshot, the default one or one with a
\* value in every field; never None, never a partial snapshot, never a value
\* of another shape, on the serial and on the Bluetooth path
C12_Original ==
    /\ Len(status) = 1
    /\ status[1] = DefaultStatus \/ Complete(status[1])

\* on the serial path the status is always one snapshot, never None
C12_SerialOneSnapshot == connection_type = "serial" => Len(status) = 1

\* C13: a status line that does not parse is handled where it is read: the
\* query is repeated, and the failure neither ends the process nor aborts
\* wait_until_idle
C13_Original ==
    (connection_type = "serial" /\ dev_defect.d \in { "no_pump", "angle_token" })
        => pc \notin Exceptions

\* mirobot on the serial path repeats the query after a line that does not
\* parse
C13_MirobotRetries ==
    (connection_type = "serial" /\ pkg = "mirobot") => pc \notin Exceptions

(***************************************************************************)
(* Properties of the lines the device sends unasked (SpecFault).           *)
(***************************************************************************)
\* the exception class the line f is logged with
FaultExc(f) ==
    CASE f.text = LINE_ERROR -> "MirobotError"
      [] f.text = LINE_ALARM -> "MirobotAlarm"
      [] OTHER -> "MirobotReset"

LoggedAtError(f) ==
    \E i \in 1..Len(log) : log[i].level = LOG_ERROR /\ log[i].exc = FaultExc(f)

\* the line f is in the log, or in what the call returned
Observed(f) ==
    \/ LoggedAtError(f)
    \/ \E i \in 1..Len(log) : log[i].level = LOG_DEBUG /\ Contains(f.text, log[i].text)
    \/ \E j \in 1..Len(result.lines) : Contains(f.text, result.lines[j])

ErrorOrAlarm(f) == f.text \in { LINE_ERROR, LINE_ALARM }

\* C14: an error or alarm line of the device that has left the receive
\* buffer was logged or handed to the caller
C14_Original ==
    \A f \in faults : (ErrorOrAlarm(f) /\ f.left # "no") => Observed(f)

\* an error or alarm line that wait_for_ok read was logged at ERROR level
\* and the call ended with SystemExit
C14_WaitForOkLogs ==
    \A f \in faults :
        (ErrorOrAlarm(f) /\ f.left = "wait_for_ok")
            => (LoggedAtError(f) /\ pc = "SystemExit")

\* an error or alarm line left the buffer in the drain before a write
C14_Drained == \E f \in faults : ErrorOrAlarm(f) /\ f.left = "drain" /\ ~Observed(f)
\* an error or alarm line was read with a status reply and ignored
C14_Polled == \E f \in faults : ErrorOrAlarm(f) /\ f.left = "get_status" /\ ~Observed(f)

IsReset(f) == f.text = LINE_RESET

\* C15: a reset banner the device sent unasked makes the call that takes it
\* from the receive buffer fail with the reset condition
C15_Original ==
    \A f \in faults :
        (IsReset(f) /\ f.left # "no") => (LoggedAtError(f) /\ pc = "SystemExit")

\* the banner fails the call when wait_for_ok reads it
C15_WaitForOkFails ==
    \A f \in faults :
        (IsReset(f) /\ f.left = "wait_for_ok")
            => (LoggedAtError(f) /\ pc = "SystemExit")

\* wait_until_idle read the banner with a status reply and returned
C15_IgnoredInPoll ==
    \E f \in faults :
        IsReset(f) /\ f.left = "get_status" /\ ran_poll /\ pc = "ready" /\ log = << >>
\* the banner came after a command sent without waiting and the next send
\* drained it
C15_DrainedAfterNoWait ==
    \E f \in faults :
        /\ IsReset(f) /\ f.left = "drain" /\ ~LoggedAtError(f)
        /\ Len(tx) >= 1 /\ f.lid = 1 /\ pc \notin Exceptions

(***************************************************************************)
(* Properties of a read that times out in wait_for_ok (SpecMatcher).       *)
(***************************************************************************)
\* a pass of the loop on a read that timed out with nothing received
C17_TimeoutRead ==
    /\ pc = "wfo"
    /\ frame = "direct"
    /\ script # << >> => Head(script).kind = "timeout"
    /\ nread' = nread + 1

C17_GoesOn ==
    /\ pc' = "wfo"
    /\ eol_counter' = eol_counter
    /\ log' = log

\* C17: in wait_for_ok a read that times out with nothing received raises no
\* error, advances no counter, and the loop goes on to the next read
C17_Original == [][C17_TimeoutRead => C17_GoesOn]_vars

\* in wlkata_mirobot it does: readline returns the empty str
C17_Wlkata == [][(pkg = "wlkata_mirobot" /\ C17_TimeoutRead) => C17_GoesOn]_vars

\* in mirobot the pass ends in a TypeError
C17_Mirobot == [][(pkg = "mirobot" /\ C17_TimeoutRead) => pc' = "TypeError"]_vars

(***************************************************************************)
(* Properties of the waits on a device that sends nothing (SpecSilentFair).*)
(***************************************************************************)
\* the running send is in wait_for_ok, or in wait_until_idle
InWaitForOk == pc = "wfo" /\ frame = "cmd"
InWaitUntilIdle == ran_poll /\ pc \notin Exceptions /\ pc # "ready"
\* the call has neither returned nor raised
StillInCall == pc \notin ({ "ready", "returned" } \cup Exceptions)

\* the wait never returns and never raises
C16_NeverEnds == [](( InWaitForOk \/ InWaitUntilIdle) => []StillInCall)

Closed == ~is_open /\ ~_is_open
\* the last public call was disconnect, and the one before it too
ClosedTwice ==
    /\ Len(ops) >= 2
    /\ ops[Len(ops)] = ncalls
    /\ ops[Len(ops) - 1] = ncalls

\* a step that is a call of disconnect
C18_Call == Len(ops') = Len(ops) + 1

IsVarLine(t) == Len(t) >= 2 /\ t[1] = "$" /\ Contains(<<"=">>, t)

\* C20: every line $N=value that was written to the port is a dollar, digits,
\* an equals sign, and digits and points, whichever method sent it
C20_Original == \A i \in 1..Len(tx) : IsVarLine(tx[i]) => C7_Matches(tx[i])

\* the lines of the methods that call send_msg with var_command=True are
\* checked before they are written
C20_Checked ==
    (cur.var_command /\ Len(tx) = ncalls /\ ncalls >= 1) => C7_Matches(tx[Len(tx)])

(***************************************************************************)
(* Properties of the methods that check a number before sending it         *)
(* (SpecActuators).                                                        *)
(***************************************************************************)
M3S == <<"M", "3", "S">>
M4E == <<"M", "4", "E">>
\* the lines written that are not status queries
CommandsWritten == SelectSeq(tx, LAMBDA t : t # QUERY)
IntArg == called.args # << >> /\ called.args[1].type = "int"
ClampToGripper(n) ==
    IF n < GRIPPER_OPEN_PWM_VALUE THEN GRIPPER_OPEN_PWM_VALUE
    ELSE IF n > GRIPPER_CLOSE_PWM_VALUE THEN GRIPPER_CLOSE_PWM_VALUE
    ELSE n

\* C21: set_gripper(pwm) on an integer pwm writes no command but M3S followed
\* by min(max(pwm, 40), 60): a value within 40..60 as it is, a smaller one as
\* 40 and a larger one as 60
C21_Clamped ==
    (called.name = "set_gripper" /\ IntArg) =>
        \A i \in 1..Len(CommandsWritten) :
            CommandsWritten[i] = M3S \o NatToDigits(ClampToGripper(called.args[1].n))

\* set_gripper(999) has written M3S60
C21_Witness ==
    /\ called = [name |-> "set_gripper", args |-> << PyInt(999) >>]
    /\ tx # << >>
    /\ tx[1] = M3S \o <<"6", "0">>

\* the texts of the numbers of a list of ints, as an int and as a float
NumberTexts(values) ==
    { NatToDigits(values[i]) : i \in 1..Len(values) }
        \cup { NatToDigits(values[i]) \o <<".", "0">> : i \in 1..Len(values) }
PermittedLines(p, name) ==
    IF name = "set_air_pump"
    THEN { M3S \o t : t \in (IF p = "wlkata_mirobot" THEN NumberTexts(pump_pwm_values)
                             ELSE { base_pump_pwm_values[i] : i \in 1..Len(base_pump_pwm_values) }) }
    ELSE { M4E \o t : t \in (IF p = "wlkata_mirobot" THEN NumberTexts(valve_pwm_values)
                             ELSE { base_valve_pwm_values[i] : i \in 1..Len(base_valve_pwm_values) }) }
PumpOrValve == called.name \in { "set_air_pump", "set_valve" }

\* C22: every command set_air_pump or set_valve writes carries one of the
\* permitted PWM values of its package
C22_Original ==
    PumpOrValve =>
        \A i \in 1..Len(CommandsWritten) :
            CommandsWritten[i] \in PermittedLines(pkg, called.name)

\* a call with a number that equals no permitted value writes nothing
C22_OtherNumberRejected ==
    (PumpOrValve /\ pkg = "wlkata_mirobot"
        /\ ~py_in(called.args[1],
                  IF called.name = "set_air_pump" THEN pump_pwm_values ELSE valve_pwm_values))
        => tx = << >> /\ pc = "SystemExit"

\* set_air_pump(False) of wlkata_mirobot has written M3SFalse
C22_BoolWritten ==
    /\ pkg = "wlkata_mirobot"
    /\ called = [name |-> "set_air_pump", args |-> << PyBool(FALSE) >>]
    /\ tx # << >>
    /\ tx[1] = M3S \o <<"F", "a", "l", "s", "e">>

ErrorLogged == \E i \in 1..Len(log) : log[i].level >= LOG_ERROR

\* C23: once a record of level ERROR is logged the call that logged it has
\* raised SystemExit: the client writes no line, logs nothing and runs no step
\* after it, and a checking method whose check failed has written no command
C23_Fatal ==
    /\ [](ErrorLogged =>
            /\ pc = "SystemExit"
            /\ pending = << >>
            /\ log[Len(log)].level >= LOG_ERROR
            /\ (called.name \in { "set_air_pump", "set_valve", "set_speed" }
                    /\ log[Len(log)].exc \in { "ValueError", "MirobotStatusError" }
                        => tx = << >>))
    /\ [][ErrorLogged => tx' = tx /\ log' = log /\ pc' = pc /\ result' = result]_vars

\* set_air_pump(999) of wlkata_mirobot has logged its ValueError and written
\* neither M3S999 nor M3S0
C23_Witness ==
    /\ pkg = "wlkata_mirobot"
    /\ called = [name |-> "set_air_pump", args |-> << PyInt(999) >>]
    /\ ErrorLogged
    /\ pc = "SystemExit"
    /\ tx = << >>

\* set_speed(3001) has logged its error and written nothing
C23_SpeedWitness ==
    /\ called = [name |-> "set_speed", args |-> << PyInt(3001) >>]
    /\ ErrorLogged
    /\ pc = "SystemExit"
    /\ tx = << >>

(***************************************************************************)
(* Properties of the acknowledgement count on both transports              *)
(* (SpecStatus).                                                           *)
(***************************************************************************)
\* C26: no wait for acknowledgement goes on once one "ok" line has been
\* counted, in wait_for_ok on the serial port and in send over Bluetooth
C26_Original ==
    /\ pc = "wfo" => eol_counter < 1
    /\ pc = "ble_wait" => ok_counter < 1

\* wait_for_ok on the serial port waits only while it has counted nothing
C26_SerialOne == pc = "wfo" => eol_counter = 0

\* send over Bluetooth has counted one "ok" and waits for a second one
C26_BleWaits ==
    /\ connection_type = "bluetooth"
    /\ pc = "ble_wait"
    /\ ok_counter = 1
    /\ tx = << cur.msg >>

(***************************************************************************)
(* Properties of the line reader (SpecReader, SpecReaderFair).             *)
(***************************************************************************)
ReadDone == rd_pc = "done" /\ rd_ret # << >>
OneLineAtMost(t) == \A i \in 1..Len(t) : t[i] # LF

\* C27: the call returns a str holding the content of one line at most; when
\* it returned before the timeout a line terminator had been received and the
\* result is the first line, and when the timeout came first the result is
\* what had been received, without the surrounding blanks
C27_Original ==
    ReadDone =>
        /\ rd_ret[1].kind = "str"
        /\ OneLineAtMost(rd_ret[1].text)
        /\ ~timed_out =>
            /\ FirstLF(rd_all) > 0
            /\ rd_ret[1].text = Strip(SubSeq(rd_all, 1, FirstLF(rd_all)))
        /\ (timed_out /\ FirstLF(rd_all) = 0) => rd_ret[1].text = Strip(rd_all)

\* DeviceSerial.readline returns at the timeout only, with all it has read
C27_WlkataAtTimeoutOnly ==
    (ReadDone /\ pkg = "wlkata_mirobot") =>
        /\ timed_out
        /\ rd_ret[1] = StrVal(Strip(msg_recv))

\* listen_to_device returns one line, or bytes at the timeout
C27_MirobotOneLine ==
    (ReadDone /\ pkg = "mirobot") =>
        \/ rd_ret[1].kind = "str" /\ OneLineAtMost(rd_ret[1].text)
        \/ rd_ret[1] = BytesEmpty

\* DeviceSerial.readline has returned two lines as one str
C27_TwoLines ==
    /\ ReadDone
    /\ pkg = "wlkata_mirobot"
    /\ rd_ret[1] = StrVal(<<"k", LF, "k">>)

\* C28: every call of readline / listen_to_device returns
C28_Original == (rd_pc = "loop") ~> (rd_pc = "done")

\* every call of DeviceSerial.readline returns
C28_Wlkata == (pkg = "wlkata_mirobot" /\ rd_pc = "loop") ~> (rd_pc = "done")

\* listen_to_device waits in serialport.readline though the timeout has passed
C28_MirobotWaits ==
    /\ pkg = "mirobot"
    /\ rd_pc = "read"
    /\ timed_out
    /\ FirstLF(in_buf) = 0

(***************************************************************************)
(* The status parser on a well-formed report that follows other text in    *)
(* the same line (SpecParseNoise).                                         *)
(***************************************************************************)
NoiseSamples ==
    { << >>,
      <<"o", "k", "\r", "\n">>,
      <<"[", "R", "E", "C", "V", "]", " ">>,
      <<"<">> }

InitParseNoise ==
    /\ pkg \in Packages
    /\ pc = "ready"
    /\ frame = "parse"
    /\ log = << >>
    /\ result = NoResult
    /\ WfoIdle
    /\ ScriptIdle
    /\ idle_reads = 0
    /\ SessIdle
    /\ \E f \in FieldValues, noise \in NoiseSamples :
        /\ p_snap = << f, noise >>
        /\ p_line = noise \o FormatStatus(f)
    /\ p_out = None
    /\ ReaderIdle

SpecParseNoise == InitParseNoise /\ [][NextParse]_vars

\* what _parse_status returns on the report alone
BareReport == _parse_status(pkg, FormatStatus(p_snap[1]), << >>)

\* C29: a well-formed report that follows leading text in the line parses
\* successfully, to the snapshot the report alone parses to
C29_Original ==
    p_out # None =>
        /\ p_out[1].ret
        /\ p_out[1].status = BareReport.status

\* wlkata_mirobot searches the line: a report after text without "<" parses
\* as the report alone does
C29_WlkataSearches ==
    (p_out # None /\ pkg = "wlkata_mirobot" /\ ~Contains(<<"<">>, p_snap[2])) =>
        /\ p_out[1].ret
        /\ p_out[1].status = BareReport.status

\* mirobot matches at the start of the line: a report after text without "<"
\* fails
C29_MirobotAnchored ==
    (p_out # None /\ pkg = "mirobot" /\ p_snap[2] # << >> /\ ~Contains(<<"<">>, p_snap[2])) =>
        /\ ~p_out[1].ret
        /\ p_out[1].status = None

\* mirobot has failed to parse a report that follows a log prefix
C29_PrefixFails ==
    /\ pkg = "mirobot"
    /\ p_snap[2] = <<"[", "R", "E", "C", "V", "]", " ">>
    /\ p_out = Some([ret |-> FALSE, status |-> None])
    /\ BareReport.ret

(***************************************************************************)
(* Properties of generate_args_string (SpecArgs).                          *)
(***************************************************************************)
RECURSIVE WithTokens(_, _, _)
\* text, then for each pairing from the i-th on whose value is not None a
\* space and the pairing's key and text
WithTokens(text, pairings, i) ==
    IF i > Len(pairings) THEN text
    ELSE IF pairings[i].value = None THEN WithTokens(text, pairings, i + 1)
    ELSE WithTokens(text \o <<" ">> \o pairings[i].key \o pairings[i].value[1].text,
                    pairings, i + 1)

\* the pairings with each value replaced by the text it is to appear as
AsWritten(pairings) ==
    [i \in 1..Len(pairings) |->
        [key |-> pairings[i].key,
         value |-> IF pairings[i].value = None THEN None
                   ELSE Some(PyStr(str(pairings[i].value[1])))]]
AsRounded(p, pairings) ==
    [i \in 1..Len(pairings) |->
        [key |-> pairings[i].key,
         value |-> IF pairings[i].value = None THEN None
                   ELSE Some(PyStr(str(IF p = "wlkata_mirobot"
                                       THEN round2(pairings[i].value[1])
                                       ELSE pairings[i].value[1])))]]

SingleSpaces(t) ==
    /\ t # << >>
    /\ t[1] # " "
    /\ t[Len(t)] # " "
    /\ \A i \in 1..(Len(t) - 1) : ~(t[i] = " " /\ t[i + 1] = " ")

\* C30 as claimed: the result is the instruction followed, in order, by a
\* space and key+value for each pairing whose value is not None, a value of 0
\* included, with no space at either end and no two spaces in a row
C30_Original ==
    p_out # None =>
        /\ p_out[1] = WithTokens(p_snap[1], AsWritten(p_snap[2]), 1)
        /\ SingleSpaces(p_out[1])

\* C30 amended: the same, where in wlkata_mirobot the value of a token is a
\* float value rounded to two decimals
C30_Amended ==
    p_out # None =>
        /\ p_out[1] = WithTokens(p_snap[1], AsRounded(pkg, p_snap[2]), 1)
        /\ SingleSpaces(p_out[1])

\* "M21 G90" with X=1.0, Y=None, F=2000 has given "M21 G90 X1.0 F2000"
C30_Witness ==
    /\ p_snap = << <<"M", "2", "1", " ", "G", "9", "0">>,
                   << [key |-> <<"X">>, value |-> Some(PyFloat(10))],
                      [key |-> <<"Y">>, value |-> None],
                      [key |-> <<"F">>, value |-> Some(PyInt(2000))] >> >>
    /\ p_out = Some(<<"M", "2", "1", " ", "G", "9", "0", " ", "X", "1", ".", "0", " ",
                      "F", "2", "0", "0", "0">>)

\* "M21 G90" with X=0 has given "M21 G90 X0"
C30_ZeroKept ==
    /\ p_snap[2] = << [key |-> <<"X">>, value |-> Some(PyInt(0))] >>
    /\ p_out # None
    /\ p_out[1] = p_snap[1] \o <<" ", "X", "0">>

(***************************************************************************)
(* Properties of the wait flag send_msg hands to send (SpecWait).          *)
(***************************************************************************)
\* the flag an explicit argument asks for, and for None the instance default
WaitAskedFor == IF cur.wait_arg = "None" THEN wait_default ELSE cur.wait_arg = "True"

\* C31 as claimed: send_msg hands to send the wait flag it was given, and
\* for None the default chosen at construction
C31_Original == cur # NoCall => cur.wait = WaitAskedFor

\* an explicit True or False is used as given in both packages
C31_ExplicitAsGiven ==
    (cur # NoCall /\ cur.wait_arg # "None") => cur.wait = (cur.wait_arg = "True")

\* mirobot: None gives the default chosen at construction
C31_MirobotDefault ==
    (cur # NoCall /\ pkg = "mirobot" /\ cur.wait_arg = "None") => cur.wait = wait_default

\* wlkata_mirobot: None gives False, whatever the default chosen at construction
C31_WlkataNoneIsFalse ==
    (cur # NoCall /\ pkg = "wlkata_mirobot" /\ cur.wait_arg = "None") => ~cur.wait

\* a wlkata_mirobot client constructed with wait_ok=True has returned from
\* send_msg(msg, wait_ok=None) without a call of wait_for_ok
C31_NoWait ==
    /\ pkg = "wlkata_mirobot"
    /\ wait_default
    /\ cur # NoCall
    /\ cur.wait_arg = "None"
    /\ ~cur.wait_idle
    /\ pc = "ready"
    /\ tx # << >>
    /\ ~ran_wfo

(***************************************************************************)
(* Properties of reset_configuration (SpecReset).                          *)
(***************************************************************************)
ResetCalled == called.name = "reset_configuration"
\* the first n lines of the source as send_msg writes them
StrippedLines(n) == [i \in 1..n |-> Strip(called.args[i])]
ResetReturned == ResetCalled /\ result = DictResult
\* the call is over: it has returned, or an exception has ended it
ResetOver == ResetCalled /\ (ResetReturned \/ pc \in { "SystemExit", "Exception" })
\* the dict has an item for each of the first n lines of the source, whose
\* value is what a send_msg call returned
HoldsOutcomes(n) ==
    /\ \A i \in 1..n : \E j \in 1..Len(reset_output) : reset_output[j].key = called.args[i]
    /\ \A j \in 1..Len(reset_output) :
        /\ \E i \in 1..n : reset_output[j].key = called.args[i]
        /\ reset_output[j].value.kind \in { "list", "bool" }
\* the lines written are the first lines of the source, in source order
InSourceOrder ==
    ResetCalled => Len(tx) <= Len(called.args) /\ tx = StrippedLines(Len(tx))
\* a line is written when as many send_msg calls have been made as lines
\* will then have been written, and a send_msg call is made when none runs
OneAtATime ==
    /\ tx' # tx => Len(tx') = ncalls /\ ncalls' = ncalls
    /\ ncalls' # ncalls => pc = "ready" /\ Len(tx) = ncalls

\* C32 as claimed: reset_configuration sends the lines of the source in
\* source order, each after the send_msg call of the line before has
\* returned, all of them by the time it is over, and the dict it returns
\* holds the outcome of each line
C32_Original ==
    /\ [](InSourceOrder /\ (ResetOver => tx = StrippedLines(Len(called.args))))
    /\ [](ResetReturned => HoldsOutcomes(Len(called.args)))
    /\ [][OneAtATime]_vars

\* C32 amended: the same up to the first line that fails the validation of
\* send_msg: that line is logged as an error and the call ends with
\* SystemExit, the line and those after it unwritten and no dict returned;
\* the dict has one item for each distinct line
C32_Amended ==
    /\ [](InSourceOrder /\ \A i \in 1..Len(tx) : C7_Matches(tx[i]))
    /\ [](ResetReturned =>
            /\ tx = StrippedLines(Len(called.args))
            /\ HoldsOutcomes(Len(called.args))
            /\ Len(reset_output) = Cardinality({ called.args[i] : i \in 1..Len(called.args) }))
    /\ []((ResetCalled /\ pc = "SystemExit") =>
            /\ Len(tx) < Len(called.args)
            /\ ~C7_Matches(Strip(called.args[Len(tx) + 1]))
            /\ ErrorLogged
            /\ HoldsOutcomes(Len(tx)))
    /\ [][OneAtATime]_vars

\* a source of three lines, the first two the same, has been sent through and
\* the dict returned has two items
C32_Witness ==
    /\ ResetReturned
    /\ called.args = << <<"$", "0", "=", "8", "0">>, <<"$", "0", "=", "8", "0">>,
                        <<"$", "1", "=", "2", ".", "5", "\n">> >>
    /\ tx = << <<"$", "0", "=", "8", "0">>, <<"$", "0", "=", "8", "0">>,
               <<"$", "1", "=", "2", ".", "5">> >>
    /\ Len(reset_output) = 2

\* the second line of the source has failed the validation: the call is over
\* and the third line was not sent
C32_Stopped ==
    /\ ResetCalled
    /\ pc = "SystemExit"
    /\ Len(called.args) = 3
    /\ Len(tx) = 1

(***************************************************************************)
(* Properties of wait_until_idle against a device whose replies may come   *)
(* late (SpecPollFair).                                                    *)
(***************************************************************************)
Polling == ran_poll /\ pc # "ready"
\* a status reply lies in the receive buffer when the read returns
ReadFindsReply ==
    /\ pc = "poll_read"
    /\ \E i \in 1..Len(rx) : Contains(LIT_OPEN, rx[i].text)
\* a status reply lies in the receive buffer when send drains it
C33_LateReplyDrained ==
    /\ pc = "send_drain"
    /\ ran_poll
    /\ \E i \in 1..Len(rx) : Contains(LIT_OPEN, rx[i].text)

\* C33 as claimed: against a device that answers every query and in the end
\* reports Idle, a running wait_until_idle returns, also when replies arrive
\* after the read made for their query has returned
C33_Original == Polling ~> (pc = "ready")

\* the wait returns if again and again a read finds a status reply
C33_ReturnsIfRead == ([]<>ReadFindsReply) => <>(ran_poll /\ pc = "ready")

\* a read that finds the Idle reply of an arm at rest ends the wait, with the
\* Idle status committed
C33_IdleReadReturns ==
    [][(ReadFindsReply /\ pc' # pc /\ busy = 0
            /\ \A i \in 1..Len(rx) : ~Contains(STATE_RUN, rx[i].text))
        => (pc' = "ready" /\ IdleNow')]_vars

(***************************************************************************)
(* Properties of construction, connect and disconnect (SpecConn).          *)
(***************************************************************************)
Serial == connection_type = "serial"
\* the last call of connect has returned, and disconnect was not called since
ConnectReturned == last_op = "connect" /\ frame # "connect"
\* the serial port is open on the port connect was given last
OpenOnPortname == is_open /\ serialport_port = portname

\* C34 as claimed: after connect(portname=p) has returned the serial port is
\* open on p, whatever the state connect found
C34_Original == (Serial /\ ConnectReturned) => OpenOnPortname

\* a connect that finds the flag _is_open cleared opens the port it was given
C34_OpensWhenClosed ==
    [][(Serial /\ last_op' = "connect" /\ ~_is_open /\ portname' # portname)
        => OpenOnPortname']_vars

\* a connect that finds the flag _is_open set leaves the port as it was
C34_KeepsOpenPort ==
    [][(Serial /\ _is_open /\ portname' # portname)
        => (serialport_port' = serialport_port /\ is_open' = is_open)]_vars

\* wlkata_mirobot: connect(portname="COM4") has returned True on a client
\* whose constructor opened COM3, and the port is still open on COM3
C34_StillOnOldPort ==
    /\ pkg = "wlkata_mirobot"
    /\ ConnectReturned
    /\ pc = "ready"
    /\ result = BoolResult(TRUE)
    /\ portname = "COM4"
    /\ is_open
    /\ serialport_port = DEFAULT_PORT

\* C35 as claimed: a client constructed with autoconnect=False has its port
\* closed and has written nothing, as long as connect was not called
C35_Original == (Serial /\ ~autoconnect /\ last_op = "none") => (~is_open /\ tx = << >>)

\* mirobot: the same
C35_Mirobot ==
    (Serial /\ pkg = "mirobot" /\ ~autoconnect /\ last_op = "none")
        => (~is_open /\ ~_is_open /\ tx = << >>)

\* wlkata_mirobot: the constructor has opened the port and written the reset
\* line, whatever autoconnect is
C35_WlkataOpens ==
    (Serial /\ pkg = "wlkata_mirobot" /\ last_op = "none")
        => (is_open /\ tx # << >> /\ tx[1] = LINE_SOFT_RESET)

\* a call of send_msg is made
SendMsgCalled == ncalls' = ncalls + 1

\* C38 as claimed: after disconnect and before a connect that succeeds,
\* every call of send_msg raises the Exception "Mirobot is not Connected!",
\* and nothing is written
C38_Original ==
    /\ [][(last_op = "disconnect" /\ SendMsgCalled) => pc' = "Exception"]_vars
    /\ [][last_op = "disconnect" => tx' = tx]_vars

\* over a serial port, in both packages
C38_SerialRaises ==
    /\ [][(Serial /\ last_op = "disconnect" /\ SendMsgCalled) => pc' = "Exception"]_vars
    /\ [][(Serial /\ last_op = "disconnect") => tx' = tx]_vars

\* over Bluetooth send_msg goes on to send, whose write fails
C38_BleGoesOn ==
    [][(~Serial /\ last_op = "disconnect" /\ SendMsgCalled) => pc' = "send_drain"]_vars

\* the serial client has raised the Exception a second time after one
\* disconnect
C38_RaisedTwice ==
    /\ Serial
    /\ last_op = "disconnect"
    /\ ncalls = 2
    /\ pc = "Exception"
    /\ Len(ops) = 1
    /\ ops[1] = 0

\* C40 as claimed: the flag _is_open is set exactly when the serial port is
\* open
C40_Original == Serial => (_is_open <=> is_open)

CloseFailed ==
    /\ pc = "SystemExit"
    /\ log # << >>
    /\ log[Len(log)].exc = "SerialDeviceCloseError"

\* the flag and the port agree unless a close of the port has failed
C40_UnlessCloseFailed == (Serial /\ ~CloseFailed) => (_is_open <=> is_open)

\* after a close that failed the flag is cleared and the port is open
C40_AfterCloseFailed == (Serial /\ CloseFailed) => (~_is_open /\ is_open)

(***************************************************************************)
(* Properties of the bytes written (SpecTerm).                             *)
(***************************************************************************)
TermReturned == frame = "term" /\ pc = "returned"

\* C36 as claimed: what send_msg(msg, terminator=t) writes is the stripped
\* msg followed by t
C36_Original == TermReturned => p_out = Some(Strip(p_snap[2]) \o p_snap[3])

\* over a serial port the stripped msg is followed by os.linesep, over
\* Bluetooth by "\r\n", whatever t is
C36_LineSep ==
    TermReturned =>
        p_out = Some(Strip(p_snap[2]) \o (IF p_snap[1] = "bluetooth" THEN CRLF ELSE p_snap[4]))

\* the stripped msg does not end in a line terminator, so one is always added
C36_NeverEndsInTerminator ==
    \A t \in Terminators : ~EndsWith(Strip(p_snap[2]), t)

\* stop() of the rover, terminator "\r\n", on a POSIX platform: "W0\n"
C36_RoverOnPosix ==
    /\ TermReturned
    /\ p_snap = << "serial", <<"W", "0">>, CRLF, LINESEP_POSIX >>
    /\ p_out = Some(<<"W", "0", "\n">>)

(***************************************************************************)
(* Properties of set_tool_pose and set_wrist_pose (SpecPose).              *)
(***************************************************************************)
PoseReturned == frame = "pose" /\ pc = "returned"
\* the token of parameter key with value v as the package writes it
PoseToken(key, v) ==
    key \o str((IF pkg = "wlkata_mirobot" THEN format_float_value(v) ELSE v)[1])
\* the blank-separated tokens of the command
RECURSIVE Tokens(_)
Tokens(s) ==
    IF Contains(<<" ">>, s)
    THEN { Split1(s, <<" ">>)[1] } \cup Tokens(Split1(s, <<" ">>)[2])
    ELSE { s }

\* C37 as claimed: the command carries the caller's roll as A, pitch as B and
\* yaw as C
C37_Original ==
    PoseReturned =>
        /\ PoseToken(<<"A">>, p_snap[4]) \in Tokens(p_out[1])
        /\ PoseToken(<<"B">>, p_snap[5]) \in Tokens(p_out[1])
        /\ PoseToken(<<"C">>, p_snap[6]) \in Tokens(p_out[1])

\* the command carries yaw as A and as C, and pitch as B
C37_YawAsA ==
    PoseReturned =>
        /\ PoseToken(<<"A">>, p_snap[6]) \in Tokens(p_out[1])
        /\ PoseToken(<<"B">>, p_snap[5]) \in Tokens(p_out[1])
        /\ PoseToken(<<"C">>, p_snap[6]) \in Tokens(p_out[1])

\* roll is not in the command unless it is written as yaw or pitch is
C37_RollUnused ==
    (PoseReturned /\ PoseToken(<< >>, p_snap[4]) \notin
                        { PoseToken(<< >>, p_snap[5]), PoseToken(<< >>, p_snap[6]) })
        => \A t \in Tokens(p_out[1]) : t = << >> \/ Tail(t) # PoseToken(<< >>, p_snap[4])

\* set_tool_pose(roll=10.5, pitch=0.0, yaw=0.0) has A0.0 in its command
C37_RollLost ==
    /\ PoseReturned
    /\ p_snap[4] = Some(PyFloat(105))
    /\ p_snap[5] = Some(PyFloat(0))
    /\ p_snap[6] = Some(PyFloat(0))
    /\ <<"A", "0", ".", "0">> \in Tokens(p_out[1])
    /\ <<"A", "1", "0", ".", "5">> \notin Tokens(p_out[1])

(***************************************************************************)
(* Properties of the classification of alarm lines (SpecMatcher).          *)
(***************************************************************************)
\* the line the last read of the wait returned contains "ALARM"
C39_Case ==
    /\ pc # "ready"
    /\ nread \in 1..Len(script0)
    /\ idle_reads = 0
    /\ script0[nread].kind = "line"
    /\ Contains(ALARM_TOKEN, script0[nread].text)

\* C39 as claimed: a line containing "ALARM" is reported as a MirobotAlarm,
\* with or without the separator "ALARM: ", and the pass on it raises no
\* exception of another kind
C39_Original ==
    C39_Case =>
        /\ pc \notin { "IndexError", "TypeError", "AttributeError" }
        /\ log # << >>
        /\ Last(log).exc = "MirobotAlarm"

\* a line with the separator is reported as a MirobotAlarm that carries the
\* text after the separator
C39_WithSeparator ==
    (C39_Case /\ Contains(ALARM_SEP, script0[nread].text)) =>
        /\ pc = "SystemExit"
        /\ Last(log).exc = "MirobotAlarm"
        /\ Last(log).text = Split1(script0[nread].text, ALARM_SEP)[2]

\* a line with "ALARM" and without the separator raises IndexError, and no
\* MirobotAlarm is reported
C39_WithoutSeparator ==
    (C39_Case /\ ~Contains(ALARM_SEP, script0[nread].text)) =>
        /\ pc = "IndexError"
        /\ \A i \in 1..Len(log) : log[i].exc # "MirobotAlarm"

\* the wait has read "ALARM:1" and ended in an IndexError
C39_IndexError ==
    /\ C39_Case
    /\ script0[nread].text = LINE_ALARM_NOSEP
    /\ pc = "IndexError"

====
